---- MODULE Spec2Model ----
(***************************************************************************)
(* Prism status line: the section aggregator (internal/statusline), the    *)
(* external plugin runner (internal/plugin) and the TTL cache              *)
(* (internal/cache).                                                       *)
(*                                                                         *)
(* Strings are sequences of one-character tokens.  Spec is one call of     *)
(* StatusLine.Render: the main goroutine walks the configured lines, and   *)
(* for each line starts one goroutine per section, waits on the WaitGroup, *)
(* filters and joins the result slots.  SpecCache is the cache alone,      *)
(* SpecLock the cache under its RWMutex with one caller per section        *)
(* goroutine, SpecHooks the registry and one RunHooks dispatch, and        *)
(* SpecUpdate the idle hook processes of a session with the update         *)
(* plugin's background download.  The further specifications each take one *)
(* part on its own: SpecExecute (Manager.Execute), SpecDiscover            *)
(* (Manager.Discover), SpecRepeat (Render called again), SpecRegistry      *)
(* (Register, Get, List), SpecSessions (the idle marker files), SpecUsage  *)
(* (the usage plugins of a line), SpecCheck (UpdatePlugin.Execute),        *)
(* SpecNotify (the update notification of the busy hooks), SpecInstall     *)
(* (concurrent update.Download), SpecContext (the context percentage) and  *)
(* SpecFormat (FormatTimeRemaining).                                       *)
(***************************************************************************)
EXTENDS Integers, Sequences, FiniteSets, TLC

----------------------------------------------------------------------------
(* Bounds *)

\* most sections in one configuration, over all its lines
MaxSections == 3
\* most lines in one configuration
MaxLines == 2

----------------------------------------------------------------------------
(* Strings *)

\* colors.Separator(): " <dim>.<reset> ", one token here
Separator == <<"|">>

NL == "\n"

RECURSIVE Join(_, _)
\* strings.Join(parts, sep)
Join(parts, sep) ==
    IF Len(parts) = 0 THEN <<>>
    ELSE IF Len(parts) = 1 THEN parts[1]
    ELSE parts[1] \o sep \o Join(Tail(parts), sep)

RECURSIVE TrimRightNL(_)
\* strings.TrimRight(s, "\n")
TrimRightNL(s) ==
    IF Len(s) > 0 /\ s[Len(s)] = NL THEN TrimRightNL(SubSeq(s, 1, Len(s) - 1))
    ELSE s

\* FilterEmpty with the test for the empty string left out
FilterNothing(slots) == slots

\* the loop of renderLine that keeps the non-empty slots, in slot order
FilterEmpty(slots) == SelectSeq(slots, LAMBDA out : out # <<>>)

\* number of tokens of s equal to t
Count(s, t) == Cardinality({k \in 1..Len(s) : s[k] = t})

----------------------------------------------------------------------------
(* Producers *)

\* the formatters renderSection dispatches to directly
BuiltinNames == {"dir", "model", "context", "linesChanged", "cost"}

\* every built-in formatter wraps its text in colour codes: never empty
BuiltinOut(name) ==
    CASE name = "dir" -> <<"D">>
      [] name = "model" -> <<"M">>
      [] name = "context" -> <<"C">>
      [] name = "linesChanged" -> <<"L">>
      [] OTHER -> <<"$">>

\* names that can be registered in the plugins.Registry (besides "update")
NativeNames == {"weather"}

\* what NativePlugin.Execute may return: (text, nil), ("", nil) or an error
NativeOutcomes == {[err |-> FALSE, out |-> <<"n">>],
                   [err |-> FALSE, out |-> <<>>],
                   [err |-> TRUE, out |-> <<>>]}

\* formatUpdateIndicator
UpdateIndicator == <<"^">>

\* UpdatePlugin.Execute: the indicator when an update is available, else
\* nothing; every path returns a nil error
UpdateExecute(avail) == IF avail THEN UpdateIndicator ELSE <<>>

\* names of the executables that may sit in the plugin directory
ExternalNames == {"weather"}

\* what a plugin subprocess may print on its standard output
Stdouts == {<<NL>>, <<" ", NL>>, <<"x", NL>>}

\* section names a configuration is written with
SectionNames == {"dir", "model", "bogus_name", "weather"}

----------------------------------------------------------------------------
(* State *)

VARIABLES
    lines,          \* config.GetAllSectionLines(): the lines, each a list of names
    registered,     \* names held by sl.nativePlugins, besides "update"
    discovered,     \* names of sl.bashPlugins, the discovered external plugins
    updateAvail,    \* the update check says a newer version exists
    pc,             \* Render: "line" in renderLine, "joined" after it, "done"
    li,             \* Render: the line being rendered (i + 1)
    k,              \* renderLine: the next section to start a goroutine for
    wg,             \* renderLine: the WaitGroup counter
    st,             \* per section goroutine: none, ready, exec, killed, done
    results,        \* renderLine: the result slots
    pipeHeld,       \* per killed subprocess: a descendant still holds its stdout
    obs,            \* per section: what each producer that ran gave back
    writers,        \* per slot: the goroutines that wrote it, in order
    finished,       \* how many goroutines of the line have finished
    overtaken,      \* a goroutine of the line finished before one started earlier
    pendingAtJoin,  \* the goroutines unfinished when the slots were last read
    rendered,       \* per line rendered so far: what renderLine returned
    updateRuns,     \* how often runUpdatePlugin ran in this Render
    updateOut,      \* what runUpdatePlugin returned last
    output,         \* Render: the lines kept so far
    ret,            \* what Render returned
    items,          \* Cache.items: key -> cacheItem
    now,            \* time.Now()
    lastOp,         \* the last cache operation, with what it returned
    cpc,            \* per caller of the cache: ready, locked, accessed, returned
    cop,            \* per caller: the operation it is in
    cres,           \* per caller: what its Get or IsStale read
    readers,        \* Cache.mu: how many hold the read lock
    writer,         \* Cache.mu: the write lock is held
    log,            \* the writes to Cache.items, in the order they were made
    plugins,        \* Registry.plugins: name -> the cache the provider was given
    regOrder,       \* the names in the order they were registered
    hpc,            \* the registry's user: new, loop, inhook, done
    hookType,       \* RunHooks: the event dispatched
    hookList,       \* RunHooks: what GetHookablePlugins returned
    hi,             \* RunHooks: position in hookList
    inHook,         \* the providers whose OnHook is in progress
    calls,          \* per name: how often OnHook was invoked
    invoked,        \* the providers invoked, in order
    returned,       \* what each OnHook returned, in order
    outputs,        \* RunHooks: the outputs collected
    printed,        \* what the hook handler printed
    autoInstall,    \* plugins.update.auto_install of the configuration
    updCache,       \* the update check file: none, current, available
    marker,         \* the file prism-auto-installed exists
    binary,         \* ~/.claude/prism: old or new
    upc,            \* the hook process: start, spawned, returned, exited
    dl,             \* its download goroutine: none, running, renamed,
                    \* marked, failed, killed
    hookOut,        \* what UpdatePlugin.OnHook returned
    hooksRun,       \* the idle hooks fired so far
    cfgFiles,       \* per configuration file: its plugins.update entry
    runState,       \* Manager.Execute: idle, running, exited, killed, returned
    exitCode,       \* the exit status of the subprocess
    stdout,         \* what the subprocess wrote to its standard output
    stdoutHeld,     \* a process the plugin started still holds the stdout pipe
    finishedAt,     \* the clock reading at which the subprocess finished
    execRet,        \* what Manager.Execute returned
    timeout,        \* Manager.Execute: its timeout argument, in clock ticks
    userDir,        \* the files of ~/.claude/prism-plugins
    projectDir,     \* the files of <project>/.claude/prism-plugins
    executable,     \* the files of userDir with an executable bit set
    header,         \* the @name of the script's header, "" when it has none
    pos,            \* Discover: the position in entries, 0 once returned
    seen,           \* Discover: the names seen
    found,          \* Discover: the plugins found so far
    usageLine,      \* the sections of the configured line, "usage" among them
    renders,        \* what the calls of Render on one StatusLine returned
    providers,      \* r.plugins: per name the provider registered
    regLog,         \* the Register calls made, in order
    listed,         \* what the last call of Registry.List returned
    idleFiles,      \* the sessions with a prism-idle-<session> file
    hooked,         \* per session: the last hook that ran for it
    lastRender,     \* the last render: its session, its isIdle, the hook before
    usagePc,        \* per usage plugin: idle, start, checked, done
    usageRet,       \* per usage plugin: what Execute returned
    checkPc,        \* UpdatePlugin.Execute: idle, start, fetching, done
    cacheFile,      \* the update cache file: NoFile, or checked_at and update_available
    updEnabled,     \* the enabled entry of the update configuration
    sessionIdle,    \* input.Prism.IsIdle
    fetches,        \* the calls of fetchLatestVersion made
    indicator,      \* what UpdatePlugin.Execute returned
    promptedAt,     \* the modification time of prism-update-prompted, -1 without it
    notifyPc,       \* per session: its busy hook is idle, at its start, or past the check
    emitted,        \* the clock readings at which a notification was returned
    tempIno,        \* the file at ~/.claude/prism.new, 0 without one
    binIno,         \* the file at ~/.claude/prism
    content,        \* per file: the chunks in it, chunk 0 being the previous binary
    dlPc,           \* per Download call: idle, create, copy, chmod, rename, ok, failed
    dlFd,           \* per Download call: the file its descriptor is open on
    dlOff,          \* per Download call: the chunks it has copied
    ctxIn,          \* input.Context and the autocompact buffer, percentages in tenths
    ctxShown,       \* the percentage renderContext draws, -1 before it ran
    ctxHanded,      \* Session.ContextPct as handed to plugins, -1 before
    fmtIn,          \* FormatTimeRemaining: d in minutes, and useDays
    fmtOut          \* FormatTimeRemaining: the string returned

renderVars == <<lines, registered, discovered, updateAvail, pc, li, k, wg, st, results,
                pipeHeld, obs, writers, finished, overtaken, pendingAtJoin,
                rendered,
                updateRuns, updateOut, output, ret>>

cacheVars == <<items, now, lastOp>>

lockVars == <<cpc, cop, cres, readers, writer, log>>

\* what neither Render nor the cache operations on their own touch
hookVars == <<plugins, regOrder, hpc, hookType, hookList, hi, inHook, calls,
              invoked, returned, outputs, printed>>

updVars == <<autoInstall, updCache, marker, binary, upc, dl, hookOut, hooksRun,
             cfgFiles>>

execVars == <<runState, exitCode, stdout, stdoutHeld, finishedAt, execRet,
              timeout>>

\* the state of the specifications further down
discoverVars == <<userDir, projectDir, executable, header, pos, seen, found>>

repeatVars == <<usageLine, renders>>

registryVars == <<providers, regLog, listed>>

sessionVars == <<idleFiles, hooked, lastRender>>

usageVars == <<usagePc, usageRet>>

checkVars == <<checkPc, cacheFile, updEnabled, sessionIdle, fetches, indicator>>

notifyVars == <<promptedAt, notifyPc, emitted>>

installVars == <<tempIno, binIno, content, dlPc, dlFd, dlOff>>

pureVars == <<ctxIn, ctxShown, ctxHanded, fmtIn, fmtOut>>

tailVars == <<usageVars, checkVars, notifyVars, installVars, pureVars>>

lastVars == <<registryVars, sessionVars, tailVars>>

otherVars == <<execVars, discoverVars, repeatVars, lastVars>>

restVars == <<lockVars, hookVars, updVars, otherVars>>

vars == <<renderVars, cacheVars, restVars>>

SeqsUpTo(S, n) == UNION {[1..m -> S] : m \in 0..n}

RECURSIVE ConfigsOf(_, _)
\* the configurations of exactly n lines with at most budget sections in all
ConfigsOf(n, budget) ==
    IF n = 0 THEN {<<>>}
    ELSE UNION {{<<l>> \o rest : rest \in ConfigsOf(n - 1, budget - Len(l))} :
                    l \in SeqsUpTo(SectionNames, budget)}

\* the section lists a configuration file can hold, within the bounds
Configs == UNION {ConfigsOf(m, MaxSections) : m \in 1..MaxLines}

Slots == 1..MaxSections

NoObs == [n |-> "none", nout |-> <<>>, e |-> "none", stdout |-> <<>>]

\* the per-line state of renderLine when it is entered
FreshLine ==
    /\ k' = 1
    /\ wg' = 0
    /\ st' = [i \in Slots |-> "none"]
    /\ results' = [i \in Slots |-> <<>>]
    /\ pipeHeld' = [i \in Slots |-> FALSE]
    /\ obs' = [i \in Slots |-> NoObs]
    /\ writers' = [i \in Slots |-> <<>>]
    /\ finished' = 0
    /\ overtaken' = FALSE

NoItems == [key \in {} |-> 0]

InitCacheIdle ==
    /\ items = NoItems
    /\ now = 0
    /\ lastOp = [op |-> "none"]

NoOp == [op |-> "none"]

NoRes == [found |-> FALSE, value |-> ""]

\* nobody is in a cache operation
InitLockIdle ==
    /\ cpc = [g \in Slots |-> "ready"]
    /\ cop = [g \in Slots |-> NoOp]
    /\ cres = [g \in Slots |-> NoRes]
    /\ readers = 0
    /\ writer = FALSE
    /\ log = <<>>

\* the cache every provider of NewRegistry is given
RegistryCache == "r.cache"

\* the providers NewRegistry registers, in its order
NewRegistryNames == <<"android_devices", "mcp", "git", "update">>

\* providers registered afterwards
RegisterNames == {"worktree", "my_plugin"}

ProviderNames == {NewRegistryNames[j] : j \in 1..Len(NewRegistryNames)}
                 \cup RegisterNames

\* the providers with an OnHook method
HookableNames == {"android_devices", "update", "worktree", "my_plugin"}

\* NewRegistry has returned, nothing dispatched
InitHookIdle ==
    /\ plugins = [n \in {NewRegistryNames[j] : j \in 1..Len(NewRegistryNames)}
                      |-> RegistryCache]
    /\ regOrder = NewRegistryNames
    /\ hpc = "new"
    /\ hookType = "none"
    /\ hookList = <<>>
    /\ hi = 1
    /\ inHook = {}
    /\ calls = [n \in ProviderNames |-> 0]
    /\ invoked = <<>>
    /\ returned = <<>>
    /\ outputs = <<>>
    /\ printed = <<>>

\* no hook process, no update known
InitUpdateIdle ==
    /\ autoInstall = TRUE
    /\ updCache = "none"
    /\ marker = FALSE
    /\ binary = "old"
    /\ upc = "exited"
    /\ dl = "none"
    /\ hookOut = <<>>
    /\ hooksRun = 0
    /\ cfgFiles = [f \in {"global", "project", "local"} |-> "absent"]

NoRet == [out |-> <<>>, err |-> "none"]

\* no external plugin is being run
InitExecuteIdle ==
    /\ runState = "idle"
    /\ exitCode = 0
    /\ stdout = <<>>
    /\ stdoutHeld = FALSE
    /\ finishedAt = 0
    /\ execRet = NoRet
    /\ timeout = 1

\* Discover is not running, on empty plugin directories
InitDiscoverIdle ==
    /\ userDir = {}
    /\ projectDir = {}
    /\ executable = {}
    /\ header = ""
    /\ pos = 0
    /\ seen = {}
    /\ found = <<>>

\* no line is configured and Render was not called
InitRepeatIdle ==
    /\ usageLine = <<>>
    /\ renders = <<>>

\* the provider NewRegistry registers under each of its names
Builtin == "builtin"

\* NewRegistry, and nothing listed
InitRegistryIdle ==
    /\ providers = [n \in {NewRegistryNames[j] : j \in 1..Len(NewRegistryNames)}
                        |-> Builtin]
    /\ regLog = <<>>
    /\ listed = <<>>

Sessions == {"s1", "s2"}

NoRender == [session |-> "none"]

\* no session has started
InitSessionsIdle ==
    /\ idleFiles = {}
    /\ hooked = [s \in Sessions |-> "none"]
    /\ lastRender = NoRender

\* the usage, usage_bars and usage_text plugins
UsageNames == {"usage", "usage_bars", "usage_text"}

\* no usage plugin runs
InitUsageIdle ==
    /\ usagePc = [n \in UsageNames |-> "idle"]
    /\ usageRet = [n \in UsageNames |-> <<>>]

\* loadUpdateCache finds no file, or one that does not parse
NoFile == [checkedAt |-> -1, avail |-> FALSE]

\* UpdatePlugin.Execute is not running
InitCheckIdle ==
    /\ checkPc = "idle"
    /\ cacheFile = NoFile
    /\ updEnabled = TRUE
    /\ sessionIdle = TRUE
    /\ fetches = 0
    /\ indicator = <<>>

\* no busy hook runs, nothing was notified
InitNotifyIdle ==
    /\ promptedAt = -1
    /\ notifyPc = [s \in Sessions |-> "idle"]
    /\ emitted = <<>>

\* the processes that call update.Download: the idle hooks of two sessions,
\* or an idle hook and prism update
Downloaders == {"d1", "d2"}

\* the previous binary, and what is in it
OldIno == 1

OldContent == {0}

\* the file a Download call creates when prism.new is not there
NewIno(d) == IF d = "d1" THEN 2 ELSE 3

\* the previous binary is installed, no Download runs
InitInstallIdle ==
    /\ tempIno = 0
    /\ binIno = OldIno
    /\ content = [f \in {OldIno} \cup {NewIno(d) : d \in Downloaders} |->
                      IF f = OldIno THEN OldContent ELSE {}]
    /\ dlPc = [d \in Downloaders |-> "idle"]
    /\ dlFd = [d \in Downloaders |-> 0]
    /\ dlOff = [d \in Downloaders |-> 0]

\* an input without context data, nothing rendered or formatted
InitPureIdle ==
    /\ ctxIn = [used |-> 0, remaining |-> 0, tokens |-> 0, window |-> 0,
                buffer |-> 0]
    /\ ctxShown = -1
    /\ ctxHanded = -1
    /\ fmtIn = [d |-> 0, useDays |-> FALSE]
    /\ fmtOut = <<>>

InitTail ==
    /\ InitUsageIdle
    /\ InitCheckIdle
    /\ InitNotifyIdle
    /\ InitInstallIdle
    /\ InitPureIdle

InitLast ==
    /\ InitRegistryIdle
    /\ InitSessionsIdle
    /\ InitTail

InitOther ==
    /\ InitExecuteIdle
    /\ InitDiscoverIdle
    /\ InitRepeatIdle
    /\ InitLast

InitRest ==
    /\ InitLockIdle
    /\ InitHookIdle
    /\ InitUpdateIdle
    /\ InitOther

Init ==
    /\ lines \in Configs
    /\ registered \in SUBSET NativeNames
    /\ discovered \in SUBSET ExternalNames
    /\ updateAvail \in BOOLEAN
    /\ pc = "line"
    /\ li = 1
    /\ k = 1
    /\ wg = 0
    /\ st = [i \in Slots |-> "none"]
    /\ results = [i \in Slots |-> <<>>]
    /\ pipeHeld = [i \in Slots |-> FALSE]
    /\ obs = [i \in Slots |-> NoObs]
    /\ writers = [i \in Slots |-> <<>>]
    /\ finished = 0
    /\ overtaken = FALSE
    /\ pendingAtJoin = {}
    /\ rendered = <<>>
    /\ updateRuns = 0
    /\ updateOut = <<>>
    /\ output = <<>>
    /\ ret = <<>>
    /\ InitCacheIdle
    /\ InitRest

\* the sections of the line being rendered
Sections == lines[li]

----------------------------------------------------------------------------
(* renderLine: the section goroutines *)

\* SlotOf appending in order of completion instead
SlotByCompletion(idx, nFinished) == nFinished + 1

\* results[idx] = ...: the slot goroutine idx writes, however many finished
\* before it
SlotOf(idx, nFinished) == idx

\* OnExecuteError passing the error text on
OnExecuteErrorShown(errText) == errText

\* runBashPlugin: what the section shows when Manager.Execute returned an error
OnExecuteError(errText) == <<>>

\* NotFoundOutput with a placeholder
NotFoundShown == <<"?">>

\* runBashPlugin: what the section shows when no discovered plugin has the name
NotFoundOutput == <<>>

\* FallsThrough whatever the native plugin returned
FallsThroughAlways(nativeErr) == TRUE

\* runPlugin: the native plugin's output is returned when err == nil; on an
\* error execution falls through to the external plugin
FallsThrough(nativeErr) == nativeErr

\* the goroutine stores the section's output and leaves (defer wg.Done())
Finish(i, out) ==
    /\ results' = [results EXCEPT ![SlotOf(i, finished)] = out]
    /\ writers' = [writers EXCEPT ![SlotOf(i, finished)] = Append(@, i)]
    /\ st' = [st EXCEPT ![i] = "done"]
    /\ finished' = finished + 1
    /\ overtaken' = (overtaken \/ \E j \in 1..(i - 1) : st[j] # "done")
    /\ wg' = wg - 1

\* go func(idx, sec): wg.Add(1) and the goroutine is started
Spawn ==
    /\ pc = "line"
    /\ k <= Len(Sections)
    /\ st[k] = "none"
    /\ wg' = wg + 1
    /\ st' = [st EXCEPT ![k] = "ready"]
    /\ k' = k + 1
    /\ UNCHANGED <<lines, registered, discovered, updateAvail, pc, li, results,
                   pipeHeld, obs,
                   writers, finished, overtaken, pendingAtJoin, rendered, updateRuns,
                   updateOut, output, ret, cacheVars, restVars>>

goFrame == <<lines, registered, discovered, updateAvail, pc, li, k,
             pendingAtJoin, rendered, updateRuns, updateOut, output, ret,
             cacheVars, restVars>>

\* renderSection for a built-in formatter
RunBuiltin(i) ==
    /\ st[i] = "ready"
    /\ Sections[i] \in BuiltinNames
    /\ Finish(i, BuiltinOut(Sections[i]))
    /\ UNCHANGED <<obs, pipeHeld>>
    /\ UNCHANGED goFrame

\* runBashPlugin up to cmd.Run: the plugin is looked up and its subprocess started
StartBash(i, o) ==
    IF Sections[i] \in discovered
    THEN /\ st' = [st EXCEPT ![i] = "exec"]
         /\ obs' = [obs EXCEPT ![i] = [o EXCEPT !.e = "running"]]
         /\ UNCHANGED <<results, writers, finished, overtaken, wg>>
    ELSE /\ Finish(i, NotFoundOutput)
         /\ obs' = [obs EXCEPT ![i] = o]

\* renderSection -> runPlugin: the native plugin first, then the external one
RunPlugin(i) ==
    /\ st[i] = "ready"
    /\ Sections[i] \notin BuiltinNames
    /\ IF Sections[i] \in registered
       THEN \E r \in NativeOutcomes :
              LET o == [NoObs EXCEPT !.n = IF r.err THEN "err" ELSE "ok",
                                     !.nout = r.out]
              IN  IF FallsThrough(r.err)
                  THEN StartBash(i, o)
                  ELSE /\ Finish(i, r.out)
                       /\ obs' = [obs EXCEPT ![i] = o]
       ELSE StartBash(i, NoObs)
    /\ UNCHANGED pipeHeld
    /\ UNCHANGED goFrame

\* Manager.Execute: cmd.Run returned before the deadline, exit status code
ProcExit(i) ==
    /\ st[i] = "exec"
    /\ \E code \in {0, 1} :
         IF code = 0
         THEN \E s \in Stdouts :
                /\ obs' = [obs EXCEPT ![i].e = "exit0", ![i].stdout = s]
                /\ Finish(i, TrimRightNL(s))
         ELSE /\ obs' = [obs EXCEPT ![i].e = "exitN"]
              /\ Finish(i, OnExecuteError(<<"e">>))
    /\ UNCHANGED pipeHeld
    /\ UNCHANGED goFrame

\* Manager.Execute: the deadline of the context passes and exec.CommandContext
\* kills the subprocess; a process the plugin started may still hold the
\* stdout pipe that cmd.Run copies from
Timeout(i) ==
    /\ st[i] = "exec"
    /\ st' = [st EXCEPT ![i] = "killed"]
    /\ obs' = [obs EXCEPT ![i].e = "timeout"]
    /\ \E held \in BOOLEAN : pipeHeld' = [pipeHeld EXCEPT ![i] = held]
    /\ UNCHANGED <<results, writers, finished, overtaken, wg>>
    /\ UNCHANGED goFrame

\* the last descendant of a killed plugin closes the stdout pipe
OrphanExit(i) ==
    /\ st[i] = "killed"
    /\ pipeHeld[i]
    /\ pipeHeld' = [pipeHeld EXCEPT ![i] = FALSE]
    /\ UNCHANGED <<st, obs, results, writers, finished, overtaken, wg>>
    /\ UNCHANGED goFrame

\* Manager.Execute: cmd.Run returns once the subprocess is dead and its output
\* pipes are at end of file; ctx.Err() is DeadlineExceeded
TimeoutReturn(i) ==
    /\ st[i] = "killed"
    /\ ~pipeHeld[i]
    /\ Finish(i, OnExecuteError(<<"t">>))
    /\ UNCHANGED <<obs, pipeHeld>>
    /\ UNCHANGED goFrame

----------------------------------------------------------------------------
(* Render: the main goroutine *)

\* WaitReturns not waiting
WaitReturnsAtOnce(counter) == TRUE

\* wg.Wait() returns when the counter is zero
WaitReturns(counter) == counter = 0

\* KeepLine keeping every line
KeepEveryLine(line) == TRUE

\* Render keeps a line when it is not the empty string
KeepLine(line) == line # <<>>

\* Render runs the update plugin for a kept line when its index i is 0
RunsUpdate(lineNo, line) == lineNo = 1

\* the result slots of the line, in slot order
SlotSeq == [i \in 1..Len(Sections) |-> results[i]]

\* renderLine from wg.Wait() on, then the body of Render's loop for this line,
\* and the final strings.Join when it was the last line
CollectLine ==
    /\ pc = "line"
    /\ k > Len(Sections)
    /\ WaitReturns(wg)
    /\ LET line == Join(FilterEmpty(SlotSeq), Separator)
       IN  /\ pendingAtJoin' = {i \in 1..Len(Sections) : st[i] # "done"}
           /\ rendered' = Append(rendered, line)
           /\ IF KeepLine(line)
              THEN IF RunsUpdate(li, line)
                   THEN LET u == UpdateExecute(updateAvail) IN
                          /\ updateRuns' = updateRuns + 1
                          /\ updateOut' = u
                          /\ output' = Append(output,
                                IF u # <<>> THEN u \o Separator \o line ELSE line)
                   ELSE /\ output' = Append(output, line)
                        /\ UNCHANGED <<updateRuns, updateOut>>
              ELSE UNCHANGED <<output, updateRuns, updateOut>>
           /\ IF li = Len(lines)
              THEN /\ pc' = "done"
                   /\ ret' = Join(output', <<NL>>)
              ELSE /\ pc' = "joined"
                   /\ UNCHANGED ret
    /\ UNCHANGED <<lines, registered, discovered, updateAvail, li, k, wg, st,
                   results, pipeHeld, obs, writers, finished, overtaken,
                   cacheVars, restVars>>

\* Render's loop goes to the next line: renderLine makes its fresh result slots
NextLine ==
    /\ pc = "joined"
    /\ pc' = "line"
    /\ li' = li + 1
    /\ FreshLine
    /\ UNCHANGED <<lines, registered, discovered, updateAvail, pendingAtJoin,
                   rendered, updateRuns, updateOut, output, ret, cacheVars, restVars>>

\* the steps of the section goroutines
GoroutineStep ==
    \E i \in Slots :
        \/ RunBuiltin(i)
        \/ RunPlugin(i)
        \/ ProcExit(i)
        \/ Timeout(i)
        \/ TimeoutReturn(i)

\* the steps of processes outside the program
OrphanStep == \E i \in Slots : OrphanExit(i)

Next ==
    \/ Spawn
    \/ CollectLine
    \/ NextLine
    \/ GoroutineStep
    \/ OrphanStep

Spec == Init /\ [][Next]_vars

\* the Go scheduler runs every runnable goroutine and every timer fires; a
\* process left behind by a plugin is under no obligation to exit
FairSpec ==
    /\ Init
    /\ [][Next]_vars
    /\ WF_vars(Spawn)
    /\ WF_vars(CollectLine)
    /\ WF_vars(NextLine)
    /\ WF_vars(GoroutineStep)

----------------------------------------------------------------------------
(* Cache *)

\* latest reading of the clock
MaxTime == 2

\* cache keys, as strings
Keys == {<<"a">>, <<"a", "b">>, <<"b">>}

Prefixes == {<<>>, <<"a">>, <<"a", "b">>, <<"b", "c">>}

Values == {"v1", "v2"}

\* the ttl arguments tried, in clock ticks
TTLs == {-1, 0, 1}

\* t.After(u)
After(t, u) == t > u

\* Cache.Get: the value and true when the key is held and now is not after its
\* expiry, "" and false otherwise
CacheGet(its, key, t) ==
    IF key \notin DOMAIN its THEN [value |-> "", found |-> FALSE]
    ELSE IF After(t, its[key].expiresAt) THEN [value |-> "", found |-> FALSE]
    ELSE [value |-> its[key].value, found |-> TRUE]

\* Cache.Set: the item is overwritten, expiring at now + ttl
CacheSet(its, key, value, ttl, t) ==
    [x \in DOMAIN its \cup {key} |->
        IF x = key THEN [value |-> value, expiresAt |-> t + ttl] ELSE its[x]]

\* Cache.IsStale
CacheIsStale(its, key, t) ==
    IF key \notin DOMAIN its THEN TRUE ELSE After(t, its[key].expiresAt)

\* Delete that empties the cache when the key is not held
CacheDeleteOrClear(its, key) ==
    IF key \in DOMAIN its THEN [x \in DOMAIN its \ {key} |-> its[x]]
    ELSE [x \in {} |-> 0]

\* Cache.Delete
CacheDelete(its, key) == [x \in DOMAIN its \ {key} |-> its[x]]

\* the comparison without the length guard
HasCommonStart(key, prefix) ==
    \A j \in 1..Len(prefix) : j <= Len(key) => key[j] = prefix[j]

\* len(key) >= len(prefix) && key[:len(prefix)] == prefix
HasPrefix(key, prefix) ==
    Len(key) >= Len(prefix) /\ SubSeq(key, 1, Len(prefix)) = prefix

\* Cache.DeleteByPrefix
CacheDeleteByPrefix(its, prefix) ==
    [x \in {y \in DOMAIN its : ~HasPrefix(y, prefix)} |-> its[x]]

Get ==
    \E key \in Keys :
        LET r == CacheGet(items, key, now)
        IN  /\ lastOp' = [op |-> "Get", key |-> key, value |-> r.value,
                          found |-> r.found, at |-> now]
            /\ UNCHANGED <<items, now, renderVars, restVars>>

Set ==
    \E key \in Keys, value \in Values, ttl \in TTLs :
        /\ items' = CacheSet(items, key, value, ttl, now)
        /\ lastOp' = [op |-> "Set", key |-> key, value |-> value,
                      ttl |-> ttl, at |-> now]
        /\ UNCHANGED <<now, renderVars, restVars>>

IsStale ==
    \E key \in Keys :
        /\ lastOp' = [op |-> "IsStale", key |-> key,
                      stale |-> CacheIsStale(items, key, now), at |-> now]
        /\ UNCHANGED <<items, now, renderVars, restVars>>

Delete ==
    \E key \in Keys :
        /\ items' = CacheDelete(items, key)
        /\ lastOp' = [op |-> "Delete"]
        /\ UNCHANGED <<now, renderVars, restVars>>

DeleteByPrefix ==
    \E prefix \in Prefixes :
        /\ items' = CacheDeleteByPrefix(items, prefix)
        /\ lastOp' = [op |-> "DeleteByPrefix", prefix |-> prefix,
                      removed |-> Cardinality(DOMAIN items)
                                  - Cardinality(DOMAIN items')]
        /\ UNCHANGED <<now, renderVars, restVars>>

Clear ==
    /\ items' = NoItems
    /\ lastOp' = [op |-> "Clear"]
    /\ UNCHANGED <<now, renderVars, restVars>>

\* the clock advances
Tick ==
    /\ now < MaxTime
    /\ now' = now + 1
    /\ UNCHANGED <<items, lastOp, renderVars, restVars>>

\* Render is not running
InitRenderIdle ==
    /\ lines = <<<<>>>>
    /\ registered = {}
    /\ discovered = {}
    /\ updateAvail = FALSE
    /\ pc = "done"
    /\ li = 1
    /\ k = 1
    /\ wg = 0
    /\ st = [i \in Slots |-> "none"]
    /\ results = [i \in Slots |-> <<>>]
    /\ pipeHeld = [i \in Slots |-> FALSE]
    /\ obs = [i \in Slots |-> NoObs]
    /\ writers = [i \in Slots |-> <<>>]
    /\ finished = 0
    /\ overtaken = FALSE
    /\ pendingAtJoin = {}
    /\ rendered = <<>>
    /\ updateRuns = 0
    /\ updateOut = <<>>
    /\ output = <<>>
    /\ ret = <<>>

\* the cache exercised on its own
InitCache ==
    /\ InitRenderIdle
    /\ InitCacheIdle
    /\ InitRest

NextCache ==
    \/ Get
    \/ Set
    \/ IsStale
    \/ Delete
    \/ DeleteByPrefix
    \/ Clear
    \/ Tick

SpecCache == InitCache /\ [][NextCache]_vars

----------------------------------------------------------------------------
(* Cache.mu: the cache called from the section goroutines of a line *)

\* the operations that take the read lock
ReadOps ==
    {[op |-> o, key |-> key] : o \in {"Get", "IsStale"}, key \in Keys \ {<<"b">>}}

\* the operations that take the write lock
WriteOps ==
    {[op |-> "Set", key |-> key, value |-> value, ttl |-> ttl] :
        key \in Keys \ {<<"b">>}, value \in Values, ttl \in {t \in TTLs : t > 0}}
    \cup {[op |-> "Delete", key |-> key] : key \in Keys \ {<<"b">>}}
    \cup {[op |-> "DeleteByPrefix", prefix |-> <<"a", "b">>]}
    \cup {[op |-> "Clear"]}

\* RLock that does not wait for the writer
RLockAtOnce(w) == TRUE

\* sync.RWMutex.RLock returns when no writer holds the lock
CanRLock(w) == ~w

\* sync.RWMutex.Lock returns when nobody holds the lock
CanLock(r, w) == r = 0 /\ ~w

\* c.mu.RLock() at the start of Get and IsStale
RLock ==
    \E g \in Slots, o \in ReadOps :
        /\ cpc[g] = "ready"
        /\ CanRLock(writer)
        /\ readers' = readers + 1
        /\ cop' = [cop EXCEPT ![g] = o]
        /\ cpc' = [cpc EXCEPT ![g] = "locked"]
        /\ UNCHANGED <<cres, writer, log, cacheVars, renderVars, hookVars, updVars, otherVars>>

\* c.mu.Lock() at the start of Set, Delete, DeleteByPrefix and Clear
Lock ==
    \E g \in Slots, o \in WriteOps :
        /\ cpc[g] = "ready"
        /\ CanLock(readers, writer)
        /\ writer' = TRUE
        /\ cop' = [cop EXCEPT ![g] = o]
        /\ cpc' = [cpc EXCEPT ![g] = "locked"]
        /\ UNCHANGED <<cres, readers, log, cacheVars, renderVars, hookVars, updVars, otherVars>>

\* the body of Get or IsStale reads c.items
ReadItems ==
    \E g \in Slots :
        /\ cpc[g] = "locked"
        /\ cop[g] \in ReadOps
        /\ cres' = [cres EXCEPT ![g] =
                IF cop[g].op = "Get" THEN CacheGet(items, cop[g].key, now)
                ELSE [found |-> ~CacheIsStale(items, cop[g].key, now),
                      value |-> ""]]
        /\ cpc' = [cpc EXCEPT ![g] = "accessed"]
        /\ UNCHANGED <<cop, readers, writer, log, cacheVars, renderVars, hookVars, updVars, otherVars>>

\* what a writing operation makes of c.items
Written(its, o, t) ==
    IF o.op = "Set" THEN CacheSet(its, o.key, o.value, o.ttl, t)
    ELSE IF o.op = "Delete" THEN CacheDelete(its, o.key)
    ELSE IF o.op = "DeleteByPrefix" THEN CacheDeleteByPrefix(its, o.prefix)
    ELSE NoItems

\* the body of Set, Delete, DeleteByPrefix or Clear writes c.items
WriteItems ==
    \E g \in Slots :
        /\ cpc[g] = "locked"
        /\ cop[g] \in WriteOps
        /\ items' = Written(items, cop[g], now)
        /\ log' = Append(log, cop[g])
        /\ cpc' = [cpc EXCEPT ![g] = "accessed"]
        /\ UNCHANGED <<cop, cres, readers, writer, now, lastOp, renderVars, hookVars, updVars, otherVars>>

\* the deferred c.mu.RUnlock(): Get or IsStale returns
RUnlock ==
    \E g \in Slots :
        /\ cpc[g] = "accessed"
        /\ cop[g] \in ReadOps
        /\ readers' = readers - 1
        /\ cop' = [cop EXCEPT ![g] = NoOp]
        /\ cres' = [cres EXCEPT ![g] = NoRes]
        /\ cpc' = [cpc EXCEPT ![g] = "returned"]
        /\ UNCHANGED <<writer, log, cacheVars, renderVars, hookVars, updVars, otherVars>>

\* the deferred c.mu.Unlock(): the writing operation returns
Unlock ==
    \E g \in Slots :
        /\ cpc[g] = "accessed"
        /\ cop[g] \in WriteOps
        /\ writer' = FALSE
        /\ cop' = [cop EXCEPT ![g] = NoOp]
        /\ cpc' = [cpc EXCEPT ![g] = "returned"]
        /\ UNCHANGED <<cres, readers, log, cacheVars, renderVars, hookVars, updVars, otherVars>>

\* the section goroutines of a line, each about to call the cache once
InitLock ==
    /\ InitRenderIdle
    /\ InitCacheIdle
    /\ InitRest

NextLock ==
    \/ RLock
    \/ Lock
    \/ ReadItems
    \/ WriteItems
    \/ RUnlock
    \/ Unlock

SpecLock == InitLock /\ [][NextLock]_vars

----------------------------------------------------------------------------
(* Registry and RunHooks *)

HookTypes == {"idle", "busy", "session_start"}

\* the orders a range over a map of these names can take
MapOrders(S) ==
    {o \in [1..Cardinality(S) -> S] :
        \A x, y \in 1..Cardinality(S) : o[x] = o[y] => x = y}

\* "android:" + cfg.Display
AndroidKey == <<"android:", "serial">>

AndroidPrefix == <<"android:">>

\* what OnHook of the provider can return for the event
HookOutcomes(n, t) ==
    IF n = "update" /\ t = "idle"
        THEN {[out |-> <<>>, err |-> "none"],
              [out |-> <<"auto-updating">>, err |-> "none"]}
    ELSE IF n = "update" /\ t = "busy"
        THEN {[out |-> <<>>, err |-> "none"],
              [out |-> <<"update available">>, err |-> "none"]}
    ELSE IF n = "my_plugin"
        THEN {[out |-> o, err |-> e] :
                 o \in {<<>>, <<"Hey!">>}, e \in {"none", "err"}}
    ELSE {[out |-> <<>>, err |-> "none"]}

\* what OnHook of the provider does to the cache it holds
HookEffect(its, n, t, c) ==
    IF n = "android_devices" /\ t = "idle" /\ c = RegistryCache
    THEN CacheDeleteByPrefix(its, AndroidPrefix)
    ELSE its

\* the output is appended whatever err is
CollectsDespiteError(o) == o.out # <<>>

\* err == nil && output != ""
Collects(o) == o.err = "none" /\ o.out # <<>>

\* the loop passes over the next provider
SkipsNext(j) == j + 2

\* the range loop goes on to the next provider
NextHook(j) == j + 1

hookFrame == <<renderVars, lockVars, updVars, otherVars, now, lastOp>>

\* Registry.Register
Register ==
    \E n \in RegisterNames \ DOMAIN plugins :
        /\ hpc = "new"
        /\ plugins' = [x \in DOMAIN plugins \cup {n} |->
                          IF x = n THEN "nil" ELSE plugins[x]]
        /\ regOrder' = Append(regOrder, n)
        /\ UNCHANGED <<hpc, hookType, hookList, hi, inHook, calls, invoked,
                       returned, outputs, printed, items, hookFrame>>

\* AndroidPlugin.Execute through Registry.Get caches its result
ExecuteAndroid ==
    \E value \in Values :
        /\ hpc = "new"
        /\ AndroidKey \notin DOMAIN items
        /\ items' = CacheSet(items, AndroidKey, value, 1, now)
        /\ UNCHANGED <<hookVars, hookFrame>>

\* RunHooks asks GetHookablePlugins for the providers
GetHookablePlugins ==
    \E t \in HookTypes, o \in MapOrders(DOMAIN plugins \cap HookableNames) :
        /\ hpc = "new"
        /\ hookType' = t
        /\ hookList' = o
        /\ hi' = 1
        /\ hpc' = "loop"
        /\ UNCHANGED <<plugins, regOrder, inHook, calls, invoked, returned,
                       outputs, printed, items, hookFrame>>

\* RunHooks calls h.OnHook
CallOnHook ==
    /\ hpc = "loop"
    /\ hi <= Len(hookList)
    /\ inHook' = inHook \cup {hookList[hi]}
    /\ calls' = [calls EXCEPT ![hookList[hi]] = @ + 1]
    /\ invoked' = Append(invoked, hookList[hi])
    /\ hpc' = "inhook"
    /\ UNCHANGED <<plugins, regOrder, hookType, hookList, hi, returned,
                   outputs, printed, items, hookFrame>>

\* h.OnHook returns, and RunHooks keeps or drops its output
ReturnOnHook ==
    /\ hpc = "inhook"
    /\ \E o \in HookOutcomes(hookList[hi], hookType) :
        /\ items' = HookEffect(items, hookList[hi], hookType,
                               plugins[hookList[hi]])
        /\ inHook' = inHook \ {hookList[hi]}
        /\ returned' = Append(returned,
                              [name |-> hookList[hi], out |-> o.out,
                               err |-> o.err])
        /\ outputs' = IF Collects(o) THEN Append(outputs, o.out) ELSE outputs
        /\ hi' = NextHook(hi)
        /\ hpc' = "loop"
        /\ UNCHANGED <<plugins, regOrder, hookType, hookList, calls, invoked,
                       printed, hookFrame>>

\* RunHooks returns and the handler prints strings.Join(outputs, "\n")
PrintOutputs ==
    /\ hpc = "loop"
    /\ hi > Len(hookList)
    /\ printed' = Join(outputs, <<NL>>)
    /\ hpc' = "done"
    /\ UNCHANGED <<plugins, regOrder, hookType, hookList, hi, inHook, calls,
                   invoked, returned, outputs, items, hookFrame>>

InitHooks ==
    /\ InitRenderIdle
    /\ InitCacheIdle
    /\ InitRest

NextHooks ==
    \/ Register
    \/ ExecuteAndroid
    \/ GetHookablePlugins
    \/ CallOnHook
    \/ ReturnOnHook
    \/ PrintOutputs

SpecHooks == InitHooks /\ [][NextHooks]_vars

----------------------------------------------------------------------------
(* The idle hook of the update plugin: prism hook idle *)

\* idle hooks fired in a session
MaxHooks == 2

\* "Prism auto-updating to <version>..."
AutoUpdateNotice == <<"auto-updating">>

\* the return waits for the download to end
AwaitsDownload(d) == d # "running"

\* handleAutoInstall returns right after the go statement
MayReturn(d) == TRUE

updFrame == <<renderVars, cacheVars, lockVars, hookVars, otherVars>>

\* what a configuration file says of plugins.update: no such entry, an entry
\* without auto_install, or one with auto_install true or false
UpdateEntries == {"absent", "unset", "true", "false"}

\* mergeCfg on the plugins.update entry: the overlay's entry replaces the base's
MergeCfg(base, overlay) == IF overlay = "absent" THEN base ELSE overlay

\* config.Load: the global file, then with a project directory the project
\* and the local file
Load(files, hasProjectDir) ==
    IF hasProjectDir
    THEN MergeCfg(MergeCfg(MergeCfg("absent", files["global"]),
                           files["project"]), files["local"])
    ELSE MergeCfg("absent", files["global"])

\* autoInstall of handleAutoInstall: true unless the entry says false
AutoInstall(entry) == entry # "false"

\* Claude stops responding: prism hook idle is started, HandleIdle loads the
\* configuration
IdleHook ==
    /\ upc = "exited"
    /\ hooksRun < MaxHooks
    /\ hooksRun' = hooksRun + 1
    /\ upc' = "start"
    /\ dl' = "none"
    /\ hookOut' = <<>>
    /\ autoInstall' = AutoInstall(Load(cfgFiles, FALSE))
    /\ UNCHANGED <<cfgFiles, updCache, marker, binary, updFrame>>

\* handleAutoInstall up to the go statement, or to an early return
HandleAutoInstall ==
    /\ upc = "start"
    /\ IF autoInstall /\ updCache = "available" /\ ~marker
       THEN /\ dl' = "running"
            /\ upc' = "spawned"
            /\ UNCHANGED hookOut
       ELSE /\ hookOut' = <<>>
            /\ upc' = "returned"
            /\ UNCHANGED dl
    /\ UNCHANGED <<cfgFiles, autoInstall, updCache, marker, binary, hooksRun, updFrame>>

\* handleAutoInstall returns the notice
ReturnNotice ==
    /\ upc = "spawned"
    /\ MayReturn(dl)
    /\ hookOut' = AutoUpdateNotice
    /\ upc' = "returned"
    /\ UNCHANGED <<cfgFiles, autoInstall, updCache, marker, binary, dl, hooksRun,
                   updFrame>>

\* update.Download returns nil: the binary is replaced
Download ==
    /\ upc # "exited"
    /\ dl = "running"
    /\ binary' = "new"
    /\ dl' = "renamed"
    /\ UNCHANGED <<cfgFiles, autoInstall, updCache, marker, upc, hookOut, hooksRun,
                   updFrame>>

\* update.Download returns an error, its 60 s timeout included
DownloadFails ==
    /\ upc # "exited"
    /\ dl = "running"
    /\ dl' = "failed"
    /\ UNCHANGED <<cfgFiles, autoInstall, updCache, marker, binary, upc, hookOut,
                   hooksRun, updFrame>>

\* the goroutine writes the marker file
WriteMarker ==
    /\ upc # "exited"
    /\ dl = "renamed"
    /\ marker' = TRUE
    /\ dl' = "marked"
    /\ UNCHANGED <<cfgFiles, autoInstall, updCache, binary, upc, hookOut, hooksRun,
                   updFrame>>

\* RunHooks, HandleIdle, handleHook and main return: the process ends, and its
\* goroutines with it
Exit ==
    /\ upc = "returned"
    /\ upc' = "exited"
    /\ dl' = IF dl \in {"running", "renamed"} THEN "killed" ELSE dl
    /\ UNCHANGED <<cfgFiles, autoInstall, updCache, marker, binary, hookOut, hooksRun,
                   updFrame>>

\* a session before its first idle hook
InitUpdate ==
    /\ InitRenderIdle
    /\ InitCacheIdle
    /\ InitLockIdle
    /\ InitHookIdle
    /\ cfgFiles \in [{"global", "project", "local"} -> UpdateEntries]
    /\ autoInstall = TRUE
    /\ updCache \in {"none", "current", "available"}
    /\ marker \in BOOLEAN
    /\ binary = "old"
    /\ upc = "exited"
    /\ dl = "none"
    /\ hookOut = <<>>
    /\ hooksRun = 0
    /\ InitOther

NextUpdate ==
    \/ IdleHook
    \/ HandleAutoInstall
    \/ ReturnNotice
    \/ Download
    \/ DownloadFails
    \/ WriteMarker
    \/ Exit

SpecUpdate == InitUpdate /\ [][NextUpdate]_vars

\* the hook process runs on while it lives, and a download that is not cut
\* off comes to an end
FairUpdate ==
    /\ SpecUpdate
    /\ WF_vars(HandleAutoInstall)
    /\ WF_vars(ReturnNotice)
    /\ WF_vars(Download)
    /\ WF_vars(WriteMarker)
    /\ WF_vars(Exit)

----------------------------------------------------------------------------
(* Manager.Execute: one run of an external plugin *)

\* ctx.Err() == context.DeadlineExceeded, Execute having been called at 0
DeadlineExceeded(t) == t >= timeout

\* the error Execute returns when cmd.Run failed
ExecError(t) == IF DeadlineExceeded(t) THEN "timeout" ELSE "plugin"

execFrame == <<renderVars, items, lastOp, lockVars, hookVars, updVars,
               discoverVars, repeatVars, lastVars>>

\* cmd.Run starts the subprocess
StartProcess ==
    /\ runState = "idle"
    /\ runState' = "running"
    /\ UNCHANGED <<exitCode, stdout, stdoutHeld, finishedAt, execRet, timeout, now,
                   execFrame>>

\* the subprocess exits before the deadline
ProcessExits ==
    \E code \in {0, 1}, s \in Stdouts, held \in BOOLEAN :
        /\ runState = "running"
        /\ ~DeadlineExceeded(now)
        /\ exitCode' = code
        /\ stdout' = s
        /\ stdoutHeld' = held
        /\ finishedAt' = now
        /\ runState' = "exited"
        /\ UNCHANGED <<execRet, timeout, now, execFrame>>

\* the clock advances; at the deadline exec.CommandContext kills a subprocess
\* that is still running
ClockTick ==
    /\ runState \in {"running", "exited"}
    /\ now < MaxTime
    /\ now' = now + 1
    /\ IF runState = "running" /\ DeadlineExceeded(now + 1)
       THEN /\ runState' = "killed"
            /\ finishedAt' = now + 1
            /\ \E held \in BOOLEAN : stdoutHeld' = held
       ELSE UNCHANGED <<runState, finishedAt, stdoutHeld>>
    /\ UNCHANGED <<exitCode, stdout, execRet, timeout, execFrame>>

\* the last process holding the stdout pipe closes it
PipeClosed ==
    /\ runState \in {"exited", "killed"}
    /\ stdoutHeld
    /\ stdoutHeld' = FALSE
    /\ UNCHANGED <<runState, exitCode, stdout, finishedAt, execRet, timeout, now,
                   execFrame>>

\* cmd.Run returns, the subprocess dead and its pipes at end of file, and
\* Execute returns
ExecuteReturns ==
    /\ runState \in {"exited", "killed"}
    /\ ~stdoutHeld
    /\ execRet' =
          IF runState = "killed" \/ exitCode # 0
          THEN [out |-> <<>>, err |-> ExecError(now)]
          ELSE [out |-> TrimRightNL(stdout), err |-> "none"]
    /\ runState' = "returned"
    /\ UNCHANGED <<exitCode, stdout, stdoutHeld, finishedAt, timeout, now,
                   execFrame>>

\* Execute is called at clock reading 0
InitExecute ==
    /\ InitRenderIdle
    /\ InitCacheIdle
    /\ InitLockIdle
    /\ InitHookIdle
    /\ InitUpdateIdle
    /\ runState = "idle"
    /\ exitCode = 0
    /\ stdout = <<>>
    /\ stdoutHeld = FALSE
    /\ finishedAt = 0
    /\ execRet = NoRet
    /\ timeout \in 1..MaxTime
    /\ InitDiscoverIdle
    /\ InitRepeatIdle
    /\ InitLast

NextExecute ==
    \/ StartProcess
    \/ ProcessExits
    \/ ClockTick
    \/ PipeClosed
    \/ ExecuteReturns

SpecExecute == InitExecute /\ [][NextExecute]_vars

----------------------------------------------------------------------------
(* Manager.Discover *)

PluginPrefix == <<"prism-plugin-">>

\* the file names a plugin directory can hold, in the order of os.ReadDir
FileNames ==
    << <<"notes.txt">>,
       <<"prism-plugin-", "old">>,
       <<"prism-plugin-", "weather">>,
       <<"prism-plugin-", "weather", ".json">>,
       <<"prism-plugin-", "weather", ".sh">> >>

\* entry.IsDir()
IsDir(name) == name = <<"prism-plugin-", "old">>

\* strings.HasSuffix
HasSuffix(str, suffix) ==
    /\ Len(str) >= Len(suffix)
    /\ SubSeq(str, Len(str) - Len(suffix) + 1, Len(str)) = suffix

\* strings.TrimPrefix
TrimPrefix(str, prefix) ==
    IF HasPrefix(str, prefix) THEN SubSeq(str, Len(prefix) + 1, Len(str)) ELSE str

\* strings.TrimSuffix
TrimSuffix(str, suffix) ==
    IF HasSuffix(str, suffix) THEN SubSeq(str, 1, Len(str) - Len(suffix)) ELSE str

\* os.ReadDir(m.pluginDir): the entries, sorted by file name
Entries(dir) == SelectSeq(FileNames, LAMBDA name : name \in dir)

\* isBinary := !strings.HasSuffix(name, ".sh")
IsBinary(name) == ~HasSuffix(name, <<".sh">>)

\* pluginName: the file name without "prism-plugin-" and, for a script, ".sh"
PluginName(name) ==
    IF IsBinary(name) THEN TrimPrefix(name, PluginPrefix)
    ELSE TrimSuffix(TrimPrefix(name, PluginPrefix), <<".sh">>)

\* meta.Name: for a script the @name of its header, for a binary the name of
\* its sidecar file when there is one; the plugin name when that is empty
MetaName(name, dir, hdr) ==
    LET declared ==
            IF IsBinary(name)
            THEN IF Append(name, ".json") \in dir THEN <<"weather">> ELSE <<>>
            ELSE IF hdr = "" THEN <<>> ELSE <<hdr>>
    IN  IF declared = <<>> THEN PluginName(name) ELSE declared

\* the entry is passed over before its name is looked at
Skipped(name) ==
    \/ IsDir(name)
    \/ ~HasPrefix(name, PluginPrefix)
    \/ HasSuffix(name, <<".json">>)

discoverFrame == <<renderVars, cacheVars, lockVars, hookVars, updVars, execVars,
                   repeatVars, lastVars>>

\* one pass of the loop over entries
DiscoverEntry ==
    /\ pos >= 1
    /\ pos <= Len(Entries(userDir))
    /\ LET name == Entries(userDir)[pos]
           mname == MetaName(name, userDir, header)
       IN  IF Skipped(name) \/ mname \in seen
           THEN UNCHANGED <<seen, found>>
           ELSE /\ seen' = seen \cup {mname}
                /\ found' = Append(found,
                                   [name |-> mname, path |-> <<"user", name>>,
                                    isBinary |-> IsBinary(name)])
    /\ pos' = pos + 1
    /\ UNCHANGED <<userDir, projectDir, executable, header, discoverFrame>>

\* Discover returns plugins
DiscoverReturns ==
    /\ pos > Len(Entries(userDir))
    /\ pos' = 0
    /\ UNCHANGED <<userDir, projectDir, executable, header, seen, found,
                   discoverFrame>>

\* the files that are not directories
PlainFiles == {FileNames[j] : j \in 1..Len(FileNames)} \ {<<"prism-plugin-", "old">>}

\* Discover is called on some plugin directories
InitDiscover ==
    /\ InitRenderIdle
    /\ InitCacheIdle
    /\ InitLockIdle
    /\ InitHookIdle
    /\ InitUpdateIdle
    /\ InitExecuteIdle
    /\ InitRepeatIdle
    /\ InitLast
    /\ userDir \in SUBSET {FileNames[j] : j \in 1..Len(FileNames)}
    /\ projectDir \in SUBSET {<<"prism-plugin-", "weather", ".sh">>}
    /\ executable \in SUBSET (userDir \cap PlainFiles)
    /\ header \in {"", "forecast"}
    /\ pos = 1
    /\ seen = {}
    /\ found = <<>>

NextDiscover ==
    \/ DiscoverEntry
    \/ DiscoverReturns

SpecDiscover == InitDiscover /\ [][NextDiscover]_vars

----------------------------------------------------------------------------
(* Render called again on the same StatusLine, with the usage plugin *)

MaxRenders == 2

\* the cache keys of the usage plugins
UsageCacheKey == <<"usage_data">>

UsageRenderedKey == <<"usage_rendered">>

\* the time to live of the two keys, in clock ticks of 100 ms
UsageCacheTTL == 600

UsageRenderedTTL == 1

\* UsagePlugin.Execute: nothing when the rendered mark is found, else the text
\* of the cached usage data, or the cost when there is none
UsageOut(its, t) ==
    IF CacheGet(its, UsageRenderedKey, t).found THEN <<>>
    ELSE IF CacheGet(its, UsageCacheKey, t).found
         THEN <<CacheGet(its, UsageCacheKey, t).value>>
         ELSE BuiltinOut("cost")

\* UsagePlugin.Execute: the rendered mark is set when it gave a text
UsageItems(its, t) ==
    IF UsageOut(its, t) # <<>>
    THEN CacheSet(its, UsageRenderedKey, "1", UsageRenderedTTL, t)
    ELSE its

\* renderSection on the sections of usageLine
SectionOut(section, its, t) ==
    IF section = "usage" THEN UsageOut(its, t) ELSE BuiltinOut(section)

\* the lines a configuration can hold: each section once at most
UsageLines ==
    {<<a>> : a \in {"dir", "model", "usage"}}
        \cup ({<<a, b>> : a, b \in {"dir", "model", "usage"}}
                  \ {<<a, a>> : a \in {"dir", "model", "usage"}})

\* StatusLine.Render, on the one line configured
RenderAgain ==
    /\ usageLine # <<>>
    /\ Len(renders) < MaxRenders
    /\ renders' = Append(renders,
                         Join(FilterEmpty([j \in 1..Len(usageLine) |->
                                  SectionOut(usageLine[j], items, now)]),
                              Separator))
    /\ items' = IF \E j \in 1..Len(usageLine) : usageLine[j] = "usage"
                THEN UsageItems(items, now) ELSE items
    /\ UNCHANGED <<usageLine, now, lastOp, renderVars, lockVars, hookVars,
                   updVars, execVars, discoverVars, lastVars>>

\* a StatusLine whose cache holds fresh usage data, and the rendered mark when
\* a render has just been made
InitRepeat ==
    /\ InitRenderIdle
    /\ InitLockIdle
    /\ InitHookIdle
    /\ InitUpdateIdle
    /\ InitExecuteIdle
    /\ InitDiscoverIdle
    /\ InitLast
    /\ now = 0
    /\ lastOp = NoOp
    /\ \E v \in Values, marked \in BOOLEAN :
          items = IF marked
                  THEN CacheSet(CacheSet(NoItems, UsageCacheKey, v, UsageCacheTTL, 0),
                                UsageRenderedKey, "1", 0, 0)
                  ELSE CacheSet(NoItems, UsageCacheKey, v, UsageCacheTTL, 0)
    /\ usageLine \in UsageLines
    /\ renders = <<>>

NextRepeat ==
    \/ RenderAgain
    \/ Tick

SpecRepeat == InitRepeat /\ [][NextRepeat]_vars

----------------------------------------------------------------------------
(* Registry.Register, Registry.Get and Registry.List *)

MaxRegisters == 2

\* the names Register is called with: one of NewRegistry's and a new one
RegistryNames == {"git", "my_plugin"}

\* the providers Register is called with
Providers == {"p1", "p2"}

\* Register that leaves a name already held alone
RegisteredFirst(m, n, p) ==
    [x \in DOMAIN m \cup {n} |-> IF x = n /\ n \notin DOMAIN m THEN p ELSE m[x]]

\* r.plugins[p.Name()] = p
Registered(m, n, p) ==
    [x \in DOMAIN m \cup {n} |-> IF x = n THEN p ELSE m[x]]

\* Registry.Get: the provider and true, or nil and false
RegistryGet(m, n) ==
    IF n \in DOMAIN m THEN [provider |-> m[n], ok |-> TRUE]
    ELSE [provider |-> "nil", ok |-> FALSE]

registryFrame == <<renderVars, cacheVars, lockVars, hookVars, updVars, execVars,
                   discoverVars, repeatVars, sessionVars, tailVars>>

\* Registry.Register
RegisterProvider ==
    \E n \in RegistryNames, p \in Providers :
        /\ Len(regLog) < MaxRegisters
        /\ providers' = Registered(providers, n, p)
        /\ regLog' = Append(regLog, [name |-> n, provider |-> p])
        /\ UNCHANGED <<listed, registryFrame>>

\* Registry.List: the names in the order the range over r.plugins takes
RegistryList ==
    \E o \in MapOrders(DOMAIN providers) :
        /\ listed' = o
        /\ UNCHANGED <<providers, regLog, registryFrame>>

InitRegistry ==
    /\ InitRenderIdle
    /\ InitCacheIdle
    /\ InitRest

NextRegistry ==
    \/ RegisterProvider
    \/ RegistryList

SpecRegistry == InitRegistry /\ [][NextRegistry]_vars

----------------------------------------------------------------------------
(* The idle marker files: the hooks write them, checkIsIdle reads them *)

\* checkIsIdle: idle when the session's file is there; busy when it is not but
\* another idle file is; idle when there is no idle file at all
CheckIsIdle(s, files) ==
    IF s \in files THEN TRUE
    ELSE IF files # {} THEN FALSE
    ELSE TRUE

sessionFrame == <<renderVars, cacheVars, lockVars, hookVars, updVars, execVars,
                  discoverVars, repeatVars, registryVars, tailVars>>

\* prism hook session-start
HandleSessionStart ==
    \E s \in Sessions :
        /\ hooked[s] \in {"none", "session_end"}
        /\ hooked' = [hooked EXCEPT ![s] = "session_start"]
        /\ UNCHANGED <<idleFiles, lastRender, sessionFrame>>

\* prism hook busy, or prism-busy-hook.sh: the user submits a prompt
HandleBusy ==
    \E s \in Sessions :
        /\ hooked[s] \in {"session_start", "idle"}
        /\ idleFiles' = idleFiles \ {s}
        /\ hooked' = [hooked EXCEPT ![s] = "busy"]
        /\ UNCHANGED <<lastRender, sessionFrame>>

\* prism hook idle: Claude stops responding
HandleIdle ==
    \E s \in Sessions :
        /\ hooked[s] = "busy"
        /\ idleFiles' = idleFiles \cup {s}
        /\ hooked' = [hooked EXCEPT ![s] = "idle"]
        /\ UNCHANGED <<lastRender, sessionFrame>>

\* prism hook session-end
HandleSessionEnd ==
    \E s \in Sessions :
        /\ hooked[s] \in {"session_start", "busy", "idle"}
        /\ idleFiles' = idleFiles \ {s}
        /\ hooked' = [hooked EXCEPT ![s] = "session_end"]
        /\ UNCHANGED <<lastRender, sessionFrame>>

\* statusline.New for a running session computes isIdle
RenderSession ==
    \E s \in Sessions :
        /\ hooked[s] \in {"session_start", "busy", "idle"}
        /\ lastRender' = [session |-> s, isIdle |-> CheckIsIdle(s, idleFiles),
                          after |-> hooked[s]]
        /\ UNCHANGED <<idleFiles, hooked, sessionFrame>>

InitSessions ==
    /\ InitRenderIdle
    /\ InitCacheIdle
    /\ InitRest

NextSessions ==
    \/ HandleSessionStart
    \/ HandleBusy
    \/ HandleIdle
    \/ HandleSessionEnd
    \/ RenderSession

SpecSessions == InitSessions /\ [][NextSessions]_vars

----------------------------------------------------------------------------
(* The usage plugins of one line, run by the goroutines of renderLine *)

\* what the plugin renders once it is past the rendered mark: the cached usage
\* data; without it the cost for usage, nothing for usage_bars and usage_text
UsageResult(n, its, t) ==
    IF CacheGet(its, UsageCacheKey, t).found
    THEN <<CacheGet(its, UsageCacheKey, t).value>>
    ELSE IF n = "usage" THEN BuiltinOut("cost") ELSE <<>>

usageFrame == <<renderVars, lockVars, hookVars, updVars, execVars, discoverVars,
                repeatVars, registryVars, sessionVars, checkVars, notifyVars,
                installVars, pureVars,
                now, lastOp>>

\* Execute reads the rendered mark, and returns "" when it finds it
UsageCheck ==
    \E n \in UsageNames :
        /\ usagePc[n] = "start"
        /\ usagePc' = [usagePc EXCEPT ![n] =
                          IF CacheGet(items, UsageRenderedKey, now).found
                          THEN "done" ELSE "checked"]
        /\ UNCHANGED <<usageRet, items, usageFrame>>

\* Execute renders, sets the rendered mark when it has a text, and returns
UsageRender ==
    \E n \in UsageNames :
        /\ usagePc[n] = "checked"
        /\ usageRet' = [usageRet EXCEPT ![n] = UsageResult(n, items, now)]
        /\ items' = IF UsageResult(n, items, now) # <<>>
                    THEN CacheSet(items, UsageRenderedKey, "1", UsageRenderedTTL, now)
                    ELSE items
        /\ usagePc' = [usagePc EXCEPT ![n] = "done"]
        /\ UNCHANGED usageFrame

\* one refresh: a line of usage sections, each started in its goroutine, on a
\* cache without the rendered mark, with or without usage data
InitUsage ==
    /\ InitRenderIdle
    /\ InitLockIdle
    /\ InitHookIdle
    /\ InitUpdateIdle
    /\ InitExecuteIdle
    /\ InitDiscoverIdle
    /\ InitRegistryIdle
    /\ InitSessionsIdle
    /\ now = 0
    /\ lastOp = NoOp
    /\ items \in {NoItems} \cup
                 {CacheSet(NoItems, UsageCacheKey, v, UsageCacheTTL, 0) : v \in Values}
    /\ usageLine \in UNION {MapOrders(S) : S \in SUBSET UsageNames \ {{}}}
    /\ renders = <<>>
    /\ usagePc = [n \in UsageNames |->
                     IF \E j \in 1..Len(usageLine) : usageLine[j] = n
                     THEN "start" ELSE "idle"]
    /\ usageRet = [n \in UsageNames |-> <<>>]
    /\ InitCheckIdle
    /\ InitNotifyIdle
    /\ InitInstallIdle
    /\ InitPureIdle

NextUsage ==
    \/ UsageCheck
    \/ UsageRender

SpecUsage == InitUsage /\ [][NextUsage]_vars

----------------------------------------------------------------------------
(* UpdatePlugin.Execute: the update check of a render *)

\* updateCacheTTL, in clock ticks of 8 hours
UpdateCacheTTL == 1

checkFrame == <<renderVars, cacheVars, lockVars, hookVars, updVars, execVars,
                discoverVars, repeatVars, registryVars, sessionVars, usageVars,
                notifyVars, installVars, pureVars>>

\* the indicator for the data of the cache file
CachedIndicator(file) == UpdateExecute(file # NoFile /\ file.avail)

\* Execute up to the fetch: nothing when disabled, the cached answer when the
\* file is fresh, or when it is stale and the session is not idle
ExecuteUpdate ==
    /\ checkPc = "start"
    /\ IF ~updEnabled
       THEN checkPc' = "done" /\ indicator' = <<>>
       ELSE IF cacheFile # NoFile /\ now - cacheFile.checkedAt < UpdateCacheTTL
       THEN checkPc' = "done" /\ indicator' = CachedIndicator(cacheFile)
       ELSE IF ~sessionIdle /\ cacheFile # NoFile
       THEN checkPc' = "done" /\ indicator' = CachedIndicator(cacheFile)
       ELSE checkPc' = "fetching" /\ indicator' = indicator
    /\ fetches' = IF checkPc' = "fetching" THEN fetches + 1 ELSE fetches
    /\ UNCHANGED <<cacheFile, updEnabled, sessionIdle, checkFrame>>

\* fetchLatestVersion returns: on an error the stale answer, else the answer
\* of the comparison, saved to the cache file
FetchReturns ==
    \E outcome \in {"error", "newer", "same"} :
        /\ checkPc = "fetching"
        /\ checkPc' = "done"
        /\ cacheFile' = IF outcome = "error" THEN cacheFile
                        ELSE [checkedAt |-> now, avail |-> outcome = "newer"]
        /\ indicator' = IF outcome = "error" THEN CachedIndicator(cacheFile)
                        ELSE UpdateExecute(outcome = "newer")
        /\ UNCHANGED <<updEnabled, sessionIdle, fetches, checkFrame>>

\* a render runs the update plugin, on some cache file, idle or not
InitCheck ==
    /\ InitRenderIdle
    /\ InitLockIdle
    /\ InitHookIdle
    /\ InitUpdateIdle
    /\ InitExecuteIdle
    /\ InitDiscoverIdle
    /\ InitRepeatIdle
    /\ InitRegistryIdle
    /\ InitSessionsIdle
    /\ InitUsageIdle
    /\ InitNotifyIdle
    /\ InitInstallIdle
    /\ InitPureIdle
    /\ items = NoItems
    /\ lastOp = NoOp
    /\ now \in 0..MaxTime
    /\ checkPc = "start"
    /\ cacheFile \in {NoFile} \cup
                     [checkedAt : 0..now, avail : BOOLEAN]
    /\ updEnabled \in BOOLEAN
    /\ sessionIdle \in BOOLEAN
    /\ fetches = 0
    /\ indicator = <<>>

NextCheck ==
    \/ ExecuteUpdate
    \/ FetchReturns

SpecCheck == InitCheck /\ [][NextCheck]_vars

----------------------------------------------------------------------------
(* handleUpdateNotification: the busy hooks of the sessions *)

\* the 24 hours of the prompted file, in clock ticks of 12 hours
NotifyInterval == 2

notifyFrame == <<renderVars, items, lastOp, lockVars, hookVars, updVars, execVars,
                 discoverVars, repeatVars, registryVars, sessionVars, usageVars,
                 checkPc, updEnabled, sessionIdle, fetches, indicator, installVars,
                 pureVars>>

\* the user submits a prompt in a session: prism hook busy is started, and
\* RunHooks gets to OnHook of the update plugin
BusyHookStarts ==
    \E s \in Sessions :
        /\ notifyPc[s] = "idle"
        /\ notifyPc' = [notifyPc EXCEPT ![s] = "start"]
        /\ UNCHANGED <<promptedAt, emitted, cacheFile, now, notifyFrame>>

\* the busy hook of a session stats the prompted file and loads the update
\* cache: it returns "" when prompted within the interval or without an update
NotifyCheck ==
    \E s \in Sessions :
        /\ notifyPc[s] = "start"
        /\ notifyPc' = [notifyPc EXCEPT ![s] =
                           IF promptedAt >= 0 /\ now - promptedAt < NotifyInterval
                           THEN "idle"
                           ELSE IF cacheFile = NoFile \/ ~cacheFile.avail
                           THEN "idle"
                           ELSE "checked"]
        /\ UNCHANGED <<promptedAt, emitted, cacheFile, now, notifyFrame>>

\* it writes the prompted file and returns the notification
NotifyWrite ==
    \E s \in Sessions :
        /\ notifyPc[s] = "checked"
        /\ promptedAt' = now
        /\ emitted' = Append(emitted, now)
        /\ notifyPc' = [notifyPc EXCEPT ![s] = "idle"]
        /\ UNCHANGED <<cacheFile, now, notifyFrame>>

\* the update check says an update is there, or not; nobody was prompted yet,
\* or somebody was at an earlier clock reading
InitNotify ==
    /\ InitRenderIdle
    /\ items = NoItems
    /\ lastOp = NoOp
    /\ now \in 0..MaxTime
    /\ InitLockIdle
    /\ InitHookIdle
    /\ InitUpdateIdle
    /\ InitExecuteIdle
    /\ InitDiscoverIdle
    /\ InitRepeatIdle
    /\ InitRegistryIdle
    /\ InitSessionsIdle
    /\ InitUsageIdle
    /\ InitInstallIdle
    /\ InitPureIdle
    /\ checkPc = "idle"
    /\ cacheFile \in {NoFile} \cup [checkedAt : {0}, avail : BOOLEAN]
    /\ updEnabled = TRUE
    /\ sessionIdle = TRUE
    /\ fetches = 0
    /\ indicator = <<>>
    /\ promptedAt \in -1..now
    /\ notifyPc = [s \in Sessions |-> "idle"]
    /\ emitted = <<>>

NextNotify ==
    \/ BusyHookStarts
    \/ NotifyCheck
    \/ NotifyWrite
    \/ Tick

SpecNotify == InitNotify /\ [][NextNotify]_vars

----------------------------------------------------------------------------
(* update.Download, called by several processes *)

\* the chunks io.Copy writes the binary in
MaxChunks == 2

installFrame == <<renderVars, cacheVars, lockVars, hookVars, updVars, execVars,
                  discoverVars, repeatVars, registryVars, sessionVars, usageVars,
                  checkVars, notifyVars, pureVars>>

\* every chunk of the new binary is in the file
Complete(c) == c = 1..MaxChunks

\* client.Do and the status tests: on an error Download returns
HttpGet ==
    \E d \in Downloaders, ok \in BOOLEAN :
        /\ dlPc[d] = "idle"
        /\ dlPc' = [dlPc EXCEPT ![d] = IF ok THEN "create" ELSE "failed"]
        /\ UNCHANGED <<tempIno, binIno, content, dlFd, dlOff, installFrame>>

\* os.Create(tempPath): the file at the path is truncated, or a new file is
\* created there; on an error Download returns
CreateTemp ==
    \E d \in Downloaders, ok \in BOOLEAN :
        /\ dlPc[d] = "create"
        /\ IF ok
           THEN LET f == IF tempIno # 0 THEN tempIno ELSE NewIno(d)
                IN  /\ tempIno' = f
                    /\ content' = [content EXCEPT ![f] = {}]
                    /\ dlFd' = [dlFd EXCEPT ![d] = f]
                    /\ dlPc' = [dlPc EXCEPT ![d] = "copy"]
           ELSE /\ dlPc' = [dlPc EXCEPT ![d] = "failed"]
                /\ UNCHANGED <<tempIno, content, dlFd>>
        /\ UNCHANGED <<binIno, dlOff, installFrame>>

\* io.Copy writes the next chunk through the descriptor, or ends: with an
\* error the temp path is removed and Download returns
CopyChunk ==
    \E d \in Downloaders, ok \in BOOLEAN :
        /\ dlPc[d] = "copy"
        /\ IF ~ok
           THEN /\ tempIno' = 0
                /\ dlPc' = [dlPc EXCEPT ![d] = "failed"]
                /\ UNCHANGED <<content, dlOff>>
           ELSE IF dlOff[d] < MaxChunks
           THEN /\ content' = [content EXCEPT ![dlFd[d]] = @ \cup {dlOff[d] + 1}]
                /\ dlOff' = [dlOff EXCEPT ![d] = @ + 1]
                /\ UNCHANGED <<tempIno, dlPc>>
           ELSE /\ dlPc' = [dlPc EXCEPT ![d] = "chmod"]
                /\ UNCHANGED <<tempIno, content, dlOff>>
        /\ UNCHANGED <<binIno, dlFd, installFrame>>

\* os.Chmod(tempPath): it fails when the path is gone, and can fail otherwise;
\* then the temp path is removed and Download returns
Chmod ==
    \E d \in Downloaders, ok \in BOOLEAN :
        /\ dlPc[d] = "chmod"
        /\ IF ok /\ tempIno # 0
           THEN /\ dlPc' = [dlPc EXCEPT ![d] = "rename"]
                /\ UNCHANGED tempIno
           ELSE /\ dlPc' = [dlPc EXCEPT ![d] = "failed"]
                /\ tempIno' = 0
        /\ UNCHANGED <<binIno, content, dlFd, dlOff, installFrame>>

\* os.Rename(tempPath, binaryPath): the file at the temp path takes the place
\* of the binary; on an error the temp path is removed and Download returns
Rename ==
    \E d \in Downloaders, ok \in BOOLEAN :
        /\ dlPc[d] = "rename"
        /\ IF ok /\ tempIno # 0
           THEN /\ binIno' = tempIno
                /\ tempIno' = 0
                /\ dlPc' = [dlPc EXCEPT ![d] = "ok"]
           ELSE /\ dlPc' = [dlPc EXCEPT ![d] = "failed"]
                /\ tempIno' = 0
                /\ UNCHANGED binIno
        /\ UNCHANGED <<content, dlFd, dlOff, installFrame>>

InitInstall ==
    /\ InitRenderIdle
    /\ InitCacheIdle
    /\ InitRest

NextInstall ==
    \/ HttpGet
    \/ CreateTemp
    \/ CopyChunk
    \/ Chmod
    \/ Rename

SpecInstall == InitInstall /\ [][NextInstall]_vars

----------------------------------------------------------------------------
(* The context percentage: renderContext and calculateContextPct *)

pureFrame == <<renderVars, cacheVars, lockVars, hookVars, updVars, execVars,
               discoverVars, repeatVars, registryVars, sessionVars, usageVars,
               checkVars, notifyVars, installVars>>

\* int(x) of a float64 given in tenths: towards zero
IntOfTenths(x) == IF x >= 0 THEN x \div 10 ELSE -((-x) \div 10)

\* calculateContextPctLegacy
CalculateContextPctLegacy(in) ==
    LET windowSize == IF in.window = 0 THEN 200000 ELSE in.window
        usableCapacity == IF in.buffer > 0
                          THEN (windowSize * (1000 - in.buffer)) \div 1000
                          ELSE windowSize
        pct == (in.tokens * 100) \div usableCapacity
    IN  IF pct > 100 THEN 100 ELSE pct

\* the pct renderContext hands to renderContextBar
RenderContextPct(in) ==
    IF in.used > 0 \/ in.remaining > 0
    THEN LET pct == IF in.used > 0 THEN IntOfTenths(in.used)
                    ELSE IntOfTenths(1000 - in.remaining)
         IN  IF pct > 100 THEN 100 ELSE IF pct < 0 THEN 0 ELSE pct
    ELSE CalculateContextPctLegacy(in)

\* calculateContextPct
CalculateContextPct(in) ==
    IF in.used > 0 \/ in.remaining > 0
    THEN IF IntOfTenths(in.used) > 100 THEN 100 ELSE IntOfTenths(in.used)
    ELSE CalculateContextPctLegacy(in)

\* a render with a context section and a plugin: renderContext draws the bar,
\* runPlugin fills Session.ContextPct
RenderContext ==
    /\ ctxShown = -1
    /\ ctxShown' = RenderContextPct(ctxIn)
    /\ ctxHanded' = CalculateContextPct(ctxIn)
    /\ UNCHANGED <<ctxIn, fmtIn, fmtOut, pureFrame>>

\* the inputs: used_percentage and remaining_percentage absent (0) or given,
\* the tokens of current_usage, the window size, the autocompact buffer
InitContext ==
    /\ InitRenderIdle
    /\ InitCacheIdle
    /\ InitLockIdle
    /\ InitHookIdle
    /\ InitUpdateIdle
    /\ InitExecuteIdle
    /\ InitDiscoverIdle
    /\ InitRepeatIdle
    /\ InitRegistryIdle
    /\ InitSessionsIdle
    /\ InitUsageIdle
    /\ InitCheckIdle
    /\ InitNotifyIdle
    /\ InitInstallIdle
    /\ ctxIn \in [used : {0, 5, 425, 1205}, remaining : {0, 575, 1000},
                  tokens : {0, 77500, 300000}, window : {0, 100000},
                  buffer : {0, 225}]
    /\ ctxShown = -1
    /\ ctxHanded = -1
    /\ fmtIn = [d |-> 0, useDays |-> FALSE]
    /\ fmtOut = <<>>

NextContext == RenderContext

SpecContext == InitContext /\ [][NextContext]_vars

----------------------------------------------------------------------------
(* FormatTimeRemaining *)

\* FormatTimeRemaining, d in minutes: the number and the unit of the string
FormatTimeRemaining(d, useDays) ==
    LET d0 == IF d < 0 THEN 0 ELSE d
        days == IF d0 <= 24 * 60 THEN 1 ELSE (d0 \div (24 * 60)) + 1
        hours == IF d0 <= 60 THEN 1 ELSE (d0 \div 60) + 1
    IN  IF useDays
        THEN <<IF days > 7 THEN 7 ELSE days, "d">>
        ELSE <<IF hours > 5 THEN 5 ELSE hours, "h">>

\* a usage plugin formats the time until the reset
FormatTime ==
    /\ fmtOut = <<>>
    /\ fmtOut' = FormatTimeRemaining(fmtIn.d, fmtIn.useDays)
    /\ UNCHANGED <<fmtIn, ctxIn, ctxShown, ctxHanded, pureFrame>>

\* the durations: past the reset, every half hour up to 6.5 hours, every
\* half day up to 8.5 days, and some in between
InitFormat ==
    /\ InitRenderIdle
    /\ InitCacheIdle
    /\ InitLockIdle
    /\ InitHookIdle
    /\ InitUpdateIdle
    /\ InitExecuteIdle
    /\ InitDiscoverIdle
    /\ InitRepeatIdle
    /\ InitRegistryIdle
    /\ InitSessionsIdle
    /\ InitUsageIdle
    /\ InitCheckIdle
    /\ InitNotifyIdle
    /\ InitInstallIdle
    /\ ctxIn = [used |-> 0, remaining |-> 0, tokens |-> 0, window |-> 0,
                buffer |-> 0]
    /\ ctxShown = -1
    /\ ctxHanded = -1
    /\ fmtIn \in [d : {-60, 10, 45, 61, 130, 1441, 4380}
                        \cup {30 * h : h \in 0..13}
                        \cup {720 * h : h \in 1..17},
                  useDays : BOOLEAN]
    /\ fmtOut = <<>>

NextFormat == FormatTime

SpecFormat == InitFormat /\ [][NextFormat]_vars

----------------------------------------------------------------------------
(* Properties of Render *)

\* renderLine has returned for the line li
LineJoined == pc \in {"joined", "done"}

SectionIdx == 1..Len(Sections)

\* what a section shows, from what its producers gave back: the formatter's
\* text, else the native plugin's text, else the trimmed standard output of an
\* external plugin that exited 0, else nothing
Shown(name, o) ==
    IF name \in BuiltinNames THEN BuiltinOut(name)
    ELSE IF o.n = "ok" THEN o.nout
    ELSE IF o.e = "exit0" THEN TrimRightNL(o.stdout)
    ELSE <<>>

ShownSeq == [i \in SectionIdx |-> Shown(Sections[i], obs[i])]

RECURSIVE SumLen(_)
SumLen(parts) == IF Len(parts) = 0 THEN 0 ELSE Len(parts[1]) + SumLen(Tail(parts))

\* C1: whatever the order in which the section goroutines finish, the line
\* renderLine returns is the non-empty section outputs in configuration
\* order, section i before section j whenever i < j
C1_ConfigOrder ==
    LineJoined =>
        rendered[li] = Join(SelectSeq(ShownSeq, LAMBDA out : out # <<>>), Separator)

\* C1 witness: a line of two sections was joined in which the second finished
\* before the first and both show text
C1_Witness ==
    /\ LineJoined
    /\ Len(Sections) = 2
    /\ overtaken
    /\ results[1] # <<>>
    /\ results[2] # <<>>

\* number of sections of the line whose output is not the empty string
NonEmptyCount == Cardinality({i \in SectionIdx : results[i] # <<>>})

\* C2: a line with K >= 1 non-empty sections holds exactly K-1 separators and
\* nothing but the K outputs and those separators; with K = 0 it is empty
C2_SeparatorCount ==
    LineJoined =>
        /\ NonEmptyCount >= 1 =>
             /\ Count(rendered[li], Separator[1]) = NonEmptyCount - 1
             /\ Len(rendered[li]) =
                   SumLen(SlotSeq) + (NonEmptyCount - 1) * Len(Separator)
        /\ NonEmptyCount = 0 => rendered[li] = <<>>

\* C2 witness: three sections, the middle one empty, two shown
C2_Witness ==
    /\ LineJoined
    /\ Len(Sections) = 3
    /\ results[2] = <<>>
    /\ NonEmptyCount = 2

\* C3: when the slots are filtered and joined every goroutine of the line has
\* finished, and every slot was written once, by the goroutine of its index
C3_JoinAfterAll ==
    LineJoined =>
        /\ pendingAtJoin = {}
        /\ \A i \in SectionIdx : writers[i] = <<i>>

\* C3 witness: a line of several sections was joined, one of them an external
\* plugin that ran into its deadline
C3_Witness ==
    /\ LineJoined
    /\ Len(Sections) >= 2
    /\ \E i \in SectionIdx : obs[i].e = "timeout"

\* Manager.Execute returned an error for the section
ExecFailed(o) == o.e \in {"exitN", "timeout"}

\* the same observation, had the plugin exited 0 with empty output
AsEmptySuccess(o) ==
    IF ExecFailed(o) THEN [o EXCEPT !.e = "exit0", !.stdout = <<>>] ELSE o

\* Render's result rebuilt from the lines renderLine returned
Assemble(rs, avail) ==
    LET withUpdate == [l \in 1..Len(rs) |->
            IF l = 1 /\ rs[l] # <<>> /\ avail
            THEN UpdateIndicator \o Separator \o rs[l] ELSE rs[l]]
    IN  Join(SelectSeq(withUpdate, LAMBDA line : line # <<>>), <<NL>>)

\* C4: a section whose external plugin failed shows nothing, and the line and
\* the final result are what they are when that plugin exits 0 printing nothing
C4_FailureIsEmpty ==
    /\ LineJoined =>
         /\ \A i \in SectionIdx : ExecFailed(obs[i]) => results[i] = <<>>
         /\ rendered[li] =
              Join(SelectSeq([i \in SectionIdx |->
                                 Shown(Sections[i], AsEmptySuccess(obs[i]))],
                             LAMBDA out : out # <<>>), Separator)
    /\ pc = "done" => ret = Assemble(rendered, updateAvail)

\* C4 witness: Render returned text from a line in which one external plugin
\* failed next to a section that shows text
C4_Witness ==
    /\ pc = "done"
    /\ ret # <<>>
    /\ \E i, j \in SectionIdx :
         /\ ExecFailed(obs[i])
         /\ results[j] # <<>>

\* C5: once an external plugin is running, Render eventually returns
C5_RenderReturns == (\E i \in Slots : st[i] = "exec") ~> (pc = "done")

C7_UnknownSection ==
    /\ \A i \in SectionIdx :
         (st[i] = "done"
            /\ Sections[i] \notin BuiltinNames \cup registered \cup discovered)
         => (results[i] = <<>> /\ obs[i] = NoObs)
    /\ (pc = "done" /\ lines = <<<<"dir", "bogus_name", "model">>>>) =>
         /\ rendered[1] = BuiltinOut("dir") \o Separator \o BuiltinOut("model")
         /\ ret = (IF updateAvail THEN UpdateIndicator \o Separator ELSE <<>>)
                     \o rendered[1]

\* C7 witness: Render returned for ["dir", "bogus_name", "model"]
C7_Witness ==
    /\ pc = "done"
    /\ lines = <<<<"dir", "bogus_name", "model">>>>

\* C8: every Render evaluates the update indicator, and when an update is
\* available and some line is non-empty the first non-empty line, whichever
\* it is, carries the indicator and a separator in front
C8_UpdateOnFirstNonEmpty ==
    pc = "done" =>
        /\ updateRuns = 1
        /\ (updateAvail /\ \E l \in 1..Len(rendered) : rendered[l] # <<>>) =>
             LET first == CHOOSE l \in 1..Len(rendered) :
                             /\ rendered[l] # <<>>
                             /\ \A m \in 1..(l - 1) : rendered[m] = <<>>
             IN  output[1] = UpdateIndicator \o Separator \o rendered[first]

\* no empty line in s: no newline at either end, no two in a row
NoBlankLine(s) ==
    s # <<>> =>
        /\ s[1] # NL
        /\ s[Len(s)] # NL
        /\ \A n \in 1..(Len(s) - 1) : ~(s[n] = NL /\ s[n + 1] = NL)

----------------------------------------------------------------------------
(* Properties of the cache *)

\* C10: Get finds a key exactly when it is held and now < expiresAt
C10_GetIffBeforeExpiry ==
    lastOp.op = "Get" =>
        (lastOp.found <=>
            /\ lastOp.key \in DOMAIN items
            /\ lastOp.at < items[lastOp.key].expiresAt)

\* a Get of the key of the Set before it, nothing but the clock between them
GetFollowsSet ==
    /\ lastOp.op = "Set"
    /\ lastOp'.op = "Get"
    /\ lastOp'.key = lastOp.key

\* C11: after a Set with ttl <= 0 every Get of the key, one at the same
\* instant included, returns not found
C11_NonPositiveTtlExpired ==
    [][(GetFollowsSet /\ lastOp.ttl <= 0) => ~lastOp'.found]_vars

\* C12: after a Set with ttl > 0 a Get of the key returns the value set while
\* the ttl has not elapsed, and not found once it has
C12_OverwriteThenExpire ==
    [][(GetFollowsSet /\ lastOp.ttl > 0) =>
          IF lastOp'.at - lastOp.at >= lastOp.ttl
          THEN ~lastOp'.found
          ELSE lastOp'.found /\ lastOp'.value = lastOp.value]_vars

\* key = prefix followed by something
StartsWith(key, prefix) ==
    \E n \in 0..Len(key) : key = prefix \o SubSeq(key, n + 1, Len(key))

\* C13: DeleteByPrefix leaves no key starting with the prefix, and every other
\* key with the value and the expiry it had
C13_DeleteByPrefixExact ==
    [][lastOp'.op = "DeleteByPrefix" =>
          \A key \in Keys :
              IF StartsWith(key, lastOp'.prefix)
              THEN /\ key \notin DOMAIN items'
                   /\ ~CacheGet(items', key, now').found
              ELSE /\ key \in DOMAIN items' <=> key \in DOMAIN items
                   /\ key \in DOMAIN items => items'[key] = items[key]]_vars

\* prefix "a" has removed "a" and "ab" and left "b"
C13_Witness ==
    /\ lastOp.op = "DeleteByPrefix"
    /\ lastOp.prefix = <<"a">>
    /\ lastOp.removed = 2
    /\ <<"b">> \in DOMAIN items

\* the caller holds Cache.mu
Holds(g) == cpc[g] \in {"locked", "accessed"}

\* the write takes the key out of the cache
Removes(o, key) ==
    \/ o.op = "Delete" /\ o.key = key
    \/ o.op = "DeleteByPrefix" /\ StartsWith(key, o.prefix)
    \/ o.op = "Clear"

RECURSIVE LatestSet(_, _)

\* the value of the latest Set of the key not deleted since, "" when none
LatestSet(l, key) ==
    IF l = <<>> THEN ""
    ELSE LET o == l[Len(l)]
         IN  IF o.op = "Set" /\ o.key = key THEN o.value
             ELSE IF Removes(o, key) THEN ""
             ELSE LatestSet(SubSeq(l, 1, Len(l) - 1), key)

\* C14: two callers hold the lock together only when both read, and a Get
\* that returns a value returns that of the latest Set of the key not deleted
\* since
C14_ExclusiveWrites ==
    /\ \A g, h \in Slots :
          (g # h /\ Holds(g) /\ Holds(h)) =>
              (cop[g] \in ReadOps /\ cop[h] \in ReadOps)
    /\ \A g \in Slots :
          (cpc[g] = "accessed" /\ cop[g].op = "Get" /\ cres[g].found) =>
              cres[g].value = LatestSet(log, cop[g].key)

\* a Get returns the second of two values set for its key, while another
\* caller is held off
C14_Witness ==
    \E g \in Slots :
        /\ cpc[g] = "accessed"
        /\ cop[g].op = "Get"
        /\ cres[g].found
        /\ Len(log) = 2
        /\ log[1].op = "Set"
        /\ log[1].key = cop[g].key
        /\ log[1].value # cres[g].value

----------------------------------------------------------------------------
(* Properties of the registry and of RunHooks *)

\* the hook-capable providers, in the order they were registered
HookableInOrder == SelectSeq(regOrder, LAMBDA n : n \in HookableNames)

IsPrefix(s1, s2) == Len(s1) <= Len(s2) /\ SubSeq(s2, 1, Len(s1)) = s1

\* what the provider's OnHook does to the cache is in place
EffectInPlace(n) ==
    (n = "android_devices" /\ hookType = "idle") =>
        ~CacheGet(items, AndroidKey, now).found

\* C15: the providers are invoked in registration order, and when one starts
\* every one before it has returned and its effect is in place
C15_RegistrationOrder ==
    /\ IsPrefix(invoked, HookableInOrder)
    /\ \A j \in 1..Len(invoked) :
          j < Len(invoked) => (j <= Len(returned) /\ EffectInPlace(invoked[j]))

\* C16: at most one OnHook is in progress, no provider is invoked twice, and
\* when the dispatch is over every hook-capable provider has been invoked once
C16_OnceEachInTurn ==
    /\ Cardinality(inHook) <= 1
    /\ \A n \in ProviderNames : calls[n] <= 1
    /\ hpc = "done" =>
          \A n \in ProviderNames :
              calls[n] = IF n \in DOMAIN plugins \cap HookableNames THEN 1 ELSE 0

\* a dispatch over four hook-capable providers is over
C16_Witness ==
    /\ hpc = "done"
    /\ Len(invoked) = 4
    /\ \A n \in HookableNames : calls[n] = 1

RECURSIVE Kept(_)

\* the outputs of the returns without an error that are not empty
Kept(rets) ==
    IF rets = <<>> THEN <<>>
    ELSE LET r == Head(rets)
         IN  IF r.err = "none" /\ r.out # <<>>
             THEN <<r.out>> \o Kept(Tail(rets))
             ELSE Kept(Tail(rets))

\* C17: the outputs collected are those returned without an error and not
\* empty, in order, and an error keeps no later provider from being invoked
C17_ErrorsSkipped ==
    /\ outputs = Kept(returned)
    /\ hpc = "done" => Len(returned) = Len(hookList)

\* a provider returned an error with an output, a later one's output was kept
C17_Witness ==
    /\ hpc = "done"
    /\ \E x, y \in 1..Len(returned) :
          /\ x < y
          /\ returned[x].err = "err"
          /\ returned[x].out # <<>>
          /\ returned[y].out # <<>>
          /\ outputs = <<returned[y].out>>

\* C18: every provider the registry holds has the registry's cache
C18_SharedCache ==
    \A n \in DOMAIN plugins : plugins[n] = RegistryCache

----------------------------------------------------------------------------
(* Properties of the idle hook of the update plugin *)

\* C19: OnHook can return as soon as the download is started, and what it
\* has returned is the notice when a download was started and nothing
\* otherwise, whatever has become of the download
C19_HookDoesNotWait ==
    /\ upc = "spawned" => ENABLED ReturnNotice
    /\ upc \in {"returned", "exited"} /\ hooksRun > 0 =>
          hookOut = IF dl = "none" THEN <<>> ELSE AutoUpdateNotice

\* OnHook has returned the notice and the download is still running
C19_Witness ==
    /\ upc = "returned"
    /\ dl = "running"
    /\ hookOut = AutoUpdateNotice

\* the idle hook fires with an update known, auto_install on and no marker
InstallDue ==
    /\ upc = "start"
    /\ autoInstall
    /\ updCache = "available"
    /\ ~marker

\* C20: when the idle hook fires with an install due, the binary is replaced
\* and the marker written in the end, unless the download itself fails
C20_EventuallyInstalled ==
    InstallDue ~> ((binary = "new" /\ marker) \/ dl = "failed")

\* C21: with auto_install false in the configuration in effect for the
\* project, no idle hook starts a download or returns the notice
C21_AutoInstallOff ==
    ~AutoInstall(Load(cfgFiles, TRUE)) => (dl = "none" /\ hookOut = <<>>)

\* nothing but spaces, tabs and newlines
IsBlank(s) == \A j \in 1..Len(s) : s[j] \in {" ", "\t", NL}

\* the external plugin of the section exited 0 with a blank standard output
PrintedBlank(o) == o.n # "ok" /\ o.e = "exit0" /\ IsBlank(o.stdout)

\* C22: a section whose external plugin exits 0 printing only whitespace and
\* newlines shows nothing, and the line is the other sections joined
C22_BlankOutputHides ==
    LineJoined =>
        /\ \A i \in SectionIdx : PrintedBlank(obs[i]) => results[i] = <<>>
        /\ rendered[li] =
             Join(SelectSeq([i \in SectionIdx |->
                                IF PrintedBlank(obs[i]) THEN <<>>
                                ELSE Shown(Sections[i], obs[i])],
                            LAMBDA out : out # <<>>), Separator)

----------------------------------------------------------------------------
(* Properties of Manager.Execute *)

\* the deadline passed while the subprocess was running
TimedOut == finishedAt >= timeout

\* C23: Execute returns the timeout error exactly when the deadline passed
\* before the subprocess finished and the plugin error when it exited non-zero
\* before; a non-zero exit is no success, and an error comes with no output
C23_ErrorKinds ==
    runState = "returned" =>
        /\ execRet.err = "timeout" <=> TimedOut
        /\ (~TimedOut /\ exitCode # 0) => execRet.err = "plugin"
        /\ exitCode # 0 => execRet.err # "none"
        /\ execRet.err # "none" => execRet.out = <<>>

----------------------------------------------------------------------------
(* Properties of Cache.Delete, Cache.DeleteByPrefix and Cache.Clear *)

\* the items of its whose keys are in keep, and nothing else
Restricted(after, its, keep) ==
    /\ DOMAIN after = keep
    /\ \A x \in keep : after[x] = its[x]

\* C29: Delete, DeleteByPrefix and Clear remove what they name and nothing
\* else, so on a missing key, an unmatched prefix or an empty cache the
\* contents stay as they are, and applying the same call once more to the
\* contents it left changes nothing
C29_DeletesIdempotent ==
    [][/\ (lastOp'.op = "Delete" /\ now' = now) =>
              \E key \in Keys :
                  /\ Restricted(items', items, DOMAIN items \ {key})
                  /\ key \notin DOMAIN items => items' = items
                  /\ CacheDelete(items', key) = items'
       /\ (lastOp'.op = "DeleteByPrefix" /\ now' = now) =>
              /\ Restricted(items', items,
                            {x \in DOMAIN items : ~StartsWith(x, lastOp'.prefix)})
              /\ (\A x \in DOMAIN items : ~StartsWith(x, lastOp'.prefix))
                     => items' = items
              /\ CacheDeleteByPrefix(items', lastOp'.prefix) = items'
       /\ (lastOp'.op = "Clear" /\ now' = now) =>
              /\ items' = NoItems
              /\ items = NoItems => items' = items]_vars

\* DeleteByPrefix was applied with a prefix no key starts with, to a cache
\* that holds something
C29_Witness ==
    ~(/\ lastOp.op = "DeleteByPrefix"
      /\ lastOp.removed = 0
      /\ lastOp.prefix # <<>>
      /\ items # NoItems)

----------------------------------------------------------------------------
(* Properties of Manager.Discover *)

Discovered == {found[j] : j \in 1..Len(found)}

\* the plugin name of the file is the descriptor's name
Provides(name, d) == ~Skipped(name) /\ PluginName(name) = d.name

\* C24: one descriptor per name at most, and for a name that the project
\* directory provides too the descriptor is the project directory's file
C24_ProjectFirst ==
    pos = 0 =>
        /\ \A d1, d2 \in Discovered : d1.name = d2.name => d1 = d2
        /\ \A d \in Discovered :
              (\E name \in projectDir : Provides(name, d)) =>
                  d.path[1] = "project"

\* C25: every descriptor is for an executable file that is neither a
\* directory nor a .json sidecar
C25_OnlyExecutables ==
    pos = 0 =>
        \A d \in Discovered :
            /\ d.path[2] \in executable
            /\ ~IsDir(d.path[2])
            /\ ~HasSuffix(d.path[2], <<".json">>)

----------------------------------------------------------------------------
(* Properties of repeated renders *)

----------------------------------------------------------------------------
(* Properties of the registry's Register, Get and List *)

\* C27: a call of List on a registry holding the names the call before
\* listed returns them in the order the call before returned
C27_StableList ==
    [][(listed # <<>> /\ {listed[j] : j \in 1..Len(listed)} = DOMAIN providers')
          => listed' = listed]_vars

\* C28: a Register call makes Get of its name return its provider, and leaves
\* Get of every other name as it was
C28_LastRegisteredWins ==
    [][Len(regLog') = Len(regLog) + 1 =>
          LET call == regLog'[Len(regLog')]
          IN  /\ RegistryGet(providers', call.name)
                     = [provider |-> call.provider, ok |-> TRUE]
              /\ \A n \in (DOMAIN providers \cup RegistryNames) \ {call.name} :
                     RegistryGet(providers', n) = RegistryGet(providers, n)]_vars

\* a name was registered twice, with two providers, and Get gives the second
C28_Witness ==
    ~(/\ Len(regLog) = 2
      /\ regLog[1].name = regLog[2].name
      /\ regLog[1].provider # regLog[2].provider
      /\ RegistryGet(providers, regLog[2].name).provider = regLog[2].provider)

----------------------------------------------------------------------------
(* Properties of the idle marker files *)

\* C30: a render for a session whose last hook was the busy hook computes
\* isIdle = false, whatever the other sessions did, and a render for a session
\* whose last hook was the idle hook computes isIdle = true
C30_IdleFollowsHooks ==
    /\ (lastRender # NoRender /\ lastRender.after = "busy") => ~lastRender.isIdle
    /\ (lastRender # NoRender /\ lastRender.after = "idle") => lastRender.isIdle

----------------------------------------------------------------------------
(* Properties of the usage plugins *)

----------------------------------------------------------------------------
(* Properties of UpdatePlugin.Execute *)

\* C32: in a render of a session that is not idle Execute never fetches the
\* latest version, and what it returns is the answer of the cache file
C32_FetchOnlyWhenIdle ==
    (checkPc # "idle" /\ ~sessionIdle) =>
        /\ fetches = 0
        /\ (checkPc = "done" /\ updEnabled) => indicator = CachedIndicator(cacheFile)

----------------------------------------------------------------------------
(* Properties of handleUpdateNotification *)

\* C33: between two notifications returned by busy hooks, of whatever
\* sessions, at least 24 hours pass
C33_OncePerDay ==
    \A i, j \in 1..Len(emitted) :
        i < j => emitted[j] - emitted[i] >= NotifyInterval

----------------------------------------------------------------------------
(* Properties of update.Download *)

\* C34: the file at the binary path is the previous binary or a completely
\* written new one, and while every Download that has returned has failed it
\* is the previous binary
C34_BinaryNeverPartial ==
    /\ content[binIno] = OldContent \/ Complete(content[binIno])
    /\ (\A d \in Downloaders : dlPc[d] # "ok") => binIno = OldIno

----------------------------------------------------------------------------
(* Properties of the context percentage *)

\* C35: the percentage handed to plugins is the percentage the context
\* section draws, and both are within 0..100
C35_SamePercentage ==
    ctxShown # -1 =>
        /\ ctxHanded = ctxShown
        /\ ctxShown \in 0..100
        /\ ctxHanded \in 0..100

----------------------------------------------------------------------------
(* Properties of FormatTimeRemaining *)

\* the smallest whole number of units that is >= d, for d >= 0
CeilUnits(d, unit) == (d + unit - 1) \div unit

\* n limited to low..high
Clamped(n, low, high) == IF n < low THEN low ELSE IF n > high THEN high ELSE n

\* C36: the string is the duration rounded up to whole hours, limited to
\* 1h..5h, or to whole days, limited to 1d..7d, a negative duration counting
\* as 0
C36_RoundedUpAndClamped ==
    fmtOut # <<>> =>
        LET d0 == IF fmtIn.d < 0 THEN 0 ELSE fmtIn.d
        IN  fmtOut = IF fmtIn.useDays
                     THEN <<Clamped(CeilUnits(d0, 24 * 60), 1, 7), "d">>
                     ELSE <<Clamped(CeilUnits(d0, 60), 1, 5), "h">>

====
